---- MODULE Spec2Model ----
(***************************************************************************)
(* Melian: an in-memory read cache in front of a relational database.      *)
(* This module models                                                      *)
(*   - the arena (src/server/arena.c) and the open-addressed hash index    *)
(*     (src/server/hash.c),                                                *)
(*   - the double-buffered table and its refresh (src/server/data.c,       *)
(*     row loading of src/server/db.c, SQLite driver),                     *)
(*   - the libevent connection engine (src/server/server.c): on_read,      *)
(*     queue_response, on_write, conn_close.                               *)
(* Memory is modelled explicitly: a pointer is (arena, generation, offset) *)
(* and an integer cast to a pointer has arena = 0.                         *)
(***************************************************************************)
EXTENDS Integers, Sequences, FiniteSets, TLC

VARIABLES
  table,      \* the Table: current_slot, slots[0..1] = (arena, index hash), stats
  rpc,        \* refresh thread: position inside table_load_from_db
  rpos,       \* refresh thread: local `pos` (the slot being rebuilt)
  rsize,      \* refresh thread: local `size` (row count reported by COUNT)
  rrows,      \* refresh thread: local `rows` of db_query_into_hash
  rfail,      \* history: the running refresh has logged a hard error
  db_open,    \* DB: db->sqlite != NULL (result of db_connect)
  loaded,     \* history: per slot, the rows inserted by its latest rebuild
  nrefresh,   \* history: refreshes started so far
  cswrites,   \* history: stores to current_slot made by the running refresh
  midfetch,   \* history: a FETCH was served while the running refresh was building
  conn,       \* struct conn_state_t of the one client connection
  tosend,     \* bytes of the client's request stream the server has not read yet
  stream,     \* the whole request stream of the client (fixed per behaviour)
  wire,       \* bytes the server has written to the socket, in order
  handled,    \* history: requests dispatched by on_read, in order
  sndq,       \* bytes in the socket's send buffer the client has not taken yet
  conn_free,  \* server->conn_free: the free list of conn structs
  tev,        \* server->tev: quit timers armed
  crashed,    \* "no", "segv" (process died), "spin" (event loop never returns)
  sarena,     \* library: the Arena the calls below work on
  shash,      \* library: the Hash built over sarena (NullHash when there is none)
  sphase,     \* library: "build", "final" (finalized), "hung" or "exit"
  stored,     \* history: the arena_store calls since the last reset, in order
  inserted,   \* history: the hash_insert calls since hash_build, in order
  sres,       \* history: the last library call and what it returned
  sresets,    \* history: arena_reset calls so far
  kmain,      \* main thread: position in main() / the event loop
  kworker,    \* cron thread: "none", "read", "check", "load" or "exited"
  kpair,      \* cron->pair: bytes written to pair[1] and not yet read from pair[0]
  krunning,   \* cron->running
  kticks,     \* history: on_tick calls so far
  kin,        \* history: executions of table_load_from_db(load = 1) in progress
  dtabs,      \* data->tables[]: per table its configuration, stats and two slots
  ddrv,       \* data_load_all_tables_from_db: position, locals and the clock
  dhist,      \* history: what the running cycle found, the last answers given
  io_backend, \* server->io_backend: "libevent" or "io_uring"
  lev,        \* libevent backend: the loop, the listener and its on_accept calls
  uctx,       \* io_uring backend: uring_ctx_t, its ring and its one connection
  rowst,      \* one row on its way through the encoder and client_decode_row
  npot,       \* one call of next_power_of_two: its arguments and its local power
  upool,      \* io_uring backend: the uring_conn_t structs, the free list, operations in flight
  mloop,      \* MelLoop: running, the wake descriptor, mel_loop_run and mel_loop_stop
  econn,      \* the EventConns of event_loop_uring.c and the operations submitted for them
  stats       \* the Status buffer of GET_STATISTICS and the connections asking for it

vars == <<table, rpc, rpos, rsize, rrows, rfail, db_open, loaded, nrefresh, cswrites,
          midfetch, conn, tosend, stream, wire, handled, sndq,
          conn_free, tev, crashed, sarena, shash, sphase, stored, inserted,
          sres, sresets, kmain, kworker, kpair, krunning, kticks, kin,
          dtabs, ddrv, dhist, io_backend, lev, uctx, rowst,
          npot, upool, mloop, econn, stats>>

tvars == <<table, rpc, rpos, rsize, rrows, rfail, db_open, loaded, nrefresh, cswrites>>
cvars == <<conn, tosend, stream, wire, handled, sndq, conn_free, tev>>
svars == <<sarena, shash, sphase, stored, inserted, sres, sresets>>
kvars == <<kmain, kworker, kpair, krunning, kticks, kin>>
dvars == <<dtabs, ddrv, dhist>>
evars == <<io_backend, lev, uctx, rowst>>
xvars == <<npot, upool, mloop, econn, stats>>
lvars == <<svars, kvars, dvars, evars, xvars>>

(***************************************************************************)
(* Bounds of the model                                                     *)
(***************************************************************************)
MaxRows == 2                  \* rows one SELECT yields at most
MaxRefreshes == 2             \* refreshes in one behaviour
ArenaInitialCapacity == 8     \* arena_cap given to table_build (1024 in data.c)

(***************************************************************************)
(* Bytes and pointers                                                      *)
(***************************************************************************)
Uninit == 0 - 1               \* a byte of malloc'ed, never written memory
Garbage == 0 - 2              \* a byte read through an invalid pointer

NULL == [arena |-> 0, gen |-> 0, off |-> 0]

\* (uint8_t*)(uintptr_t)index: an integer stored in a pointer field
IndexAsPtr(index) == [arena |-> 0, gen |-> 0, off |-> index]

\* C17 mutant: the length header is little-endian
LE32(n) == << n % 256, (n \div 256) % 256, (n \div 65536) % 256,
              (n \div 16777216) % 256 >>

\* 4-byte big-endian length header
BE32(n) == << (n \div 16777216) % 256, (n \div 65536) % 256,
              (n \div 256) % 256, n % 256 >>

RECURSIVE NextPowerOfTwoFrom(_, _)
NextPowerOfTwoFrom(value, power) ==
  IF value > power THEN NextPowerOfTwoFrom(value, power * 2) ELSE power

NextPowerOfTwo(value, start) == NextPowerOfTwoFrom(value, start)

(***************************************************************************)
(* Arena                                                                   *)
(***************************************************************************)
ArenaBuild(id, capacity) ==
  [id |-> id, gen |-> 1, capacity |-> capacity, used |-> 0,
   bytes |-> [i \in 1..capacity |-> Uninit]]

\* C19 mutant: reset leaves used as it is
ArenaResetNot(arena) == arena

\* arena_reset: arena->used = 0
ArenaReset(arena) == [arena EXCEPT !.used = 0]

\* C18 mutant: the grown buffer is a new block that the old bytes are not
\* copied into
ArenaCheckAndGrowFresh(arena, extra, moved) ==
  LET total == arena.used + extra IN
  IF total <= arena.capacity THEN arena
  ELSE LET capacity == NextPowerOfTwo(total, arena.capacity) IN
       [arena EXCEPT !.capacity = capacity,
                     !.gen = IF moved THEN @ + 1 ELSE @,
                     !.bytes = [i \in 1..capacity |-> Uninit]]

\* realloc keeps the old bytes; `moved` says whether the block was relocated
ArenaCheckAndGrow(arena, extra, moved) ==
  LET total == arena.used + extra IN
  IF total <= arena.capacity THEN arena
  ELSE LET capacity == NextPowerOfTwo(total, arena.capacity) IN
       [arena EXCEPT !.capacity = capacity,
                     !.gen = IF moved THEN @ + 1 ELSE @,
                     !.bytes = [i \in 1..capacity |->
                                  IF i <= arena.capacity THEN arena.bytes[i]
                                  ELSE Uninit]]

ArenaStore(arena, src, moved) ==
  LET grown == ArenaCheckAndGrow(arena, Len(src), moved)
      index == grown.used
  IN [index |-> index,
      arena |-> [grown EXCEPT
                   !.used = @ + Len(src),
                   !.bytes = [i \in 1..grown.capacity |->
                                IF i > index /\ i <= index + Len(src)
                                THEN src[i - index] ELSE grown.bytes[i]]]]

ArenaStoreFramed(arena, src, moved) ==
  LET vstore == ArenaStore(arena, BE32(Len(src)), moved)
      fstore == ArenaStore(vstore.arena, src, moved)
  IN [index |-> vstore.index, arena |-> fstore.arena]

\* the bytes of the arena at [index, index + len)
ArenaBytes(arena, index, len) ==
  [i \in 1..len |-> arena.bytes[index + i]]

\* p points at len bytes inside the live buffer of the arena
PtrInArena(p, arena, len) ==
  /\ p.arena = arena.id
  /\ p.gen = arena.gen
  /\ p.off + len <= arena.capacity

(***************************************************************************)
(* Hash index                                                              *)
(***************************************************************************)
\* HASH_FUNC (XXH32 of the key bytes), given as a table over the keys of
\* the model: keys 1 and 2 share a home bucket, key 3 has another one.
KeyHash(key) ==
  IF key = <<1>> THEN 4
  ELSE IF key = <<2>> THEN 8
  ELSE IF key = <<3>> THEN 5
  ELSE 7

EmptyBucket ==
  [hash |-> 0, key_len |-> 0, key_ptr |-> NULL, frame_ptr |-> NULL, frame_len |-> 0]

\* a Hash* that is NULL
NullHash == [cap |-> 0, used |-> 0, tab |-> <<>>]

HashBuild(cap_pow2) ==
  [cap |-> cap_pow2, used |-> 0, tab |-> [i \in 0..(cap_pow2 - 1) |-> EmptyBucket]]

\* C15 mutant: the probe does not advance
ProbeNextStuck(idx, cap) == idx

\* idx = (idx + 1) & mask
ProbeNext(idx, cap) == (idx + 1) % cap

\* C39 mutant: the insertion takes the last empty bucket of the probe
\* sequence instead of the first
InsertProbeLast(hash, idx, n) ==
  LET empties == { k \in 0..(hash.cap - 1 - n) :
                     hash.tab[(idx + k) % hash.cap].key_len = 0 }
  IN IF empties = {} THEN 0 - 1
     ELSE (idx + (CHOOSE k \in empties : \A j \in empties : j <= k)) % hash.cap

\* the first bucket with key_len = 0 on the probe sequence from idx, or -1
\* when all cap buckets are occupied (the loop of hash_insert never ends)
RECURSIVE InsertProbe(_, _, _)
InsertProbe(hash, idx, n) ==
  IF n = hash.cap THEN 0 - 1
  ELSE IF hash.tab[idx].key_len = 0 THEN idx
  ELSE InsertProbe(hash, ProbeNext(idx, hash.cap), n + 1)

HashInsert(hash, arena, key, frame, frame_len, moved) ==
  LET h == KeyHash(key)
      idx == InsertProbe(hash, h % hash.cap, 0)
  IN IF idx < 0
     THEN [status |-> "loop", hash |-> hash, arena |-> arena]
     ELSE LET kstore == ArenaStore(arena, key, moved) IN
          [status |-> "ok",
           arena |-> kstore.arena,
           hash |-> [hash EXCEPT
                       !.used = @ + 1,
                       !.tab[idx] = [hash |-> h,
                                     key_len |-> Len(key),
                                     key_ptr |-> IndexAsPtr(kstore.index),
                                     frame_ptr |-> IndexAsPtr(frame),
                                     frame_len |-> frame_len]]]

\* C14 mutant: the key bytes are not compared
KeyEqualsAlways(arena, key_ptr, key) == TRUE

\* key_equals(bucket->key_ptr, key, len) when key_ptr points into the arena
KeyEquals(arena, key_ptr, key) ==
  ArenaBytes(arena, key_ptr.off, Len(key)) = key

\* hash_get.  `cmp` resolves a comparison made through a key_ptr that does
\* not point into the arena (an invalid read): "fault" kills the process,
\* "equal" and "differ" are what the comparison reports when the address
\* happens to be mapped.  Result: status hit (idx), miss, fault, or loop (no
\* empty bucket and no match: the probe loop never ends).
RECURSIVE GetProbe(_, _, _, _, _, _)
GetProbe(hash, arena, key, idx, n, cmp) ==
  LET bucket == hash.tab[idx] IN
  IF n = hash.cap THEN [status |-> "loop", idx |-> 0, probes |-> n]
  ELSE IF bucket.key_len = 0 THEN [status |-> "miss", idx |-> 0, probes |-> n + 1]
  ELSE IF bucket.hash = KeyHash(key) /\ bucket.key_len = Len(key)
       THEN IF PtrInArena(bucket.key_ptr, arena, Len(key))
            THEN IF KeyEquals(arena, bucket.key_ptr, key)
                 THEN [status |-> "hit", idx |-> idx, probes |-> n + 1]
                 ELSE GetProbe(hash, arena, key, ProbeNext(idx, hash.cap), n + 1, cmp)
            ELSE IF cmp = "fault" THEN [status |-> "fault", idx |-> 0, probes |-> n + 1]
                 ELSE IF cmp = "equal"
                      THEN [status |-> "hit", idx |-> idx, probes |-> n + 1]
                      ELSE GetProbe(hash, arena, key, ProbeNext(idx, hash.cap), n + 1, cmp)
       ELSE GetProbe(hash, arena, key, ProbeNext(idx, hash.cap), n + 1, cmp)

HashGet(hash, arena, key, cmp) ==
  GetProbe(hash, arena, key, KeyHash(key) % hash.cap, 0, cmp)

(***************************************************************************)
(* Table: two slots and the slot selector (data.c)                         *)
(***************************************************************************)
\* the rows a SELECT can yield: the text of the index column and the
\* encoded row payload (row_buf)
DbKeys == {<<1>>, <<2>>}
\* the payload names the refresh that read it (7 on odd refreshes, 9 on even)
RowBuf(n) == IF n % 2 = 1 THEN <<7>> ELSE <<9>>

\* table_build: one string index, both slots with an empty arena and no hash
TableBuild ==
  [current_slot |-> 0,
   slots |-> [p \in 0..1 |->
                [arena |-> ArenaBuild(p + 1, ArenaInitialCapacity),
                 index |-> NullHash]],
   stats |-> [rows |-> 0, min_id |-> 0, max_id |-> 0]]

\* C5 mutant: the refresh rebuilds the slot current_slot names
InactiveSlotSame(current_slot) == current_slot

\* unsigned pos = 1 - table->current_slot
InactiveSlot(current_slot) == 1 - current_slot

\* unsigned hash_cap = 2 * next_power_of_two(size, 1)
HashCap(size) == 2 * NextPowerOfTwo(size, 1)

\* one SQLITE_ROW of db_sqlite_query_into_hash: store the framed row, then
\* insert it under the index column's text (skipped when the hash is NULL or
\* the text is empty)
LoadRow(slot, key, buf, moved) ==
  LET fr == ArenaStoreFramed(slot.arena, buf, moved) IN
  IF slot.index.cap = 0 \/ Len(key) = 0
  THEN [status |-> "ok", slot |-> [slot EXCEPT !.arena = fr.arena]]
  ELSE LET ins == HashInsert(slot.index, fr.arena, key, fr.index,
                             Len(buf) + 4, moved) IN
       [status |-> ins.status,
        slot |-> [arena |-> ins.arena, index |-> ins.hash]]

\* table_fetch / data_fetch_inline on the one configured table (id 0, one
\* index): the bucket found in the slot current_slot names
TableId == 0
IndexCount == 1

DataFetchInline(tbl, table_id, index_id, key, cmp) ==
  IF table_id # TableId THEN [status |-> "miss", idx |-> 0, slot |-> 0]
  ELSE IF index_id >= IndexCount THEN [status |-> "miss", idx |-> 0, slot |-> 0]
  ELSE LET cs == tbl.current_slot
           slot == tbl.slots[cs]
       IN IF slot.index.cap = 0 THEN [status |-> "miss", idx |-> 0, slot |-> cs]
          ELSE LET g == HashGet(slot.index, slot.arena, key, cmp) IN
               [status |-> g.status, idx |-> g.idx, slot |-> cs]

(***************************************************************************)
(* The refresh thread: table_load_from_db with load = 1, step by step.     *)
(* The period check of line 98 is taken to have passed (time is not        *)
(* modelled here).                                                         *)
(***************************************************************************)
Building == {"reset", "count", "build", "query", "rows", "stats", "publish"}

\* data_load_all_tables_from_db: db_connect (which may fail and leave the
\* handle NULL), then table_load_from_db reads the inactive slot
RefreshStart ==
  /\ crashed # "segv"
  /\ rpc \in {"idle", "done"}
  /\ nrefresh < MaxRefreshes
  /\ nrefresh' = nrefresh + 1
  /\ \E opened \in BOOLEAN : db_open' = opened
  /\ rpos' = InactiveSlot(table.current_slot)
  /\ rpc' = "reset"
  /\ rsize' = 0
  /\ rrows' = 0
  /\ rfail' = FALSE
  /\ cswrites' = 0
  /\ midfetch' = FALSE
  /\ UNCHANGED <<table, loaded, crashed>>
  /\ UNCHANGED cvars
  /\ UNCHANGED lvars

\* arena_reset(slot->arena)
RefreshReset ==
  /\ crashed # "segv"
  /\ rpc = "reset"
  /\ table' = [table EXCEPT !.slots[rpos].arena = ArenaReset(@)]
  /\ loaded' = [loaded EXCEPT ![rpos] = {}]
  /\ rpc' = "count"
  /\ UNCHANGED <<rpos, rsize, rrows, rfail, db_open, nrefresh, cswrites, midfetch, crashed>>
  /\ UNCHANGED cvars
  /\ UNCHANGED lvars

\* db_get_table_size: 0 with a warning when the handle is NULL or the COUNT
\* query cannot be run, else the count
RefreshCount ==
  /\ crashed # "segv"
  /\ rpc = "count"
  /\ \/ /\ db_open
        /\ \E size \in 0..MaxRows : rsize' = size
        /\ UNCHANGED rfail
     \/ /\ rsize' = 0
        /\ rfail' = TRUE
  /\ rpc' = "build"
  /\ UNCHANGED <<table, rpos, rrows, db_open, nrefresh, loaded, cswrites, midfetch, crashed>>
  /\ UNCHANGED cvars
  /\ UNCHANGED lvars

\* hash_destroy of the old hash, hash_build of the new one (NULL when the
\* allocation fails)
RefreshBuild ==
  /\ crashed # "segv"
  /\ rpc = "build"
  /\ \/ /\ table' = [table EXCEPT !.slots[rpos].index = HashBuild(HashCap(rsize))]
        /\ UNCHANGED rfail
     \/ /\ table' = [table EXCEPT !.slots[rpos].index = NullHash]
        /\ rfail' = TRUE
  /\ rpc' = "query"
  /\ rsize' = 0                 \* `size` is not read again
  /\ UNCHANGED <<rpos, rrows, db_open, nrefresh, loaded, cswrites, midfetch, crashed>>
  /\ UNCHANGED cvars
  /\ UNCHANGED lvars

\* db_sqlite_query_into_hash up to the first sqlite3_step: the handle is
\* NULL, the SELECT cannot be prepared or has too many columns (rows = 0),
\* or a column name is oversized (rows = (unsigned)-1, written -1 here)
RefreshQueryBegin ==
  /\ crashed # "segv"
  /\ rpc = "query"
  /\ \/ /\ db_open
        /\ rpc' = "rows"
        /\ UNCHANGED <<rrows, rfail>>
     \/ /\ rrows' \in {0, 0 - 1}
        /\ rrows' = 0 \/ db_open
        /\ rfail' = TRUE
        /\ rpc' = "stats"
  /\ UNCHANGED <<table, rpos, rsize, db_open, nrefresh, loaded, cswrites, midfetch, crashed>>
  /\ UNCHANGED cvars
  /\ UNCHANGED lvars

\* one SQLITE_ROW of a SELECT that yields at most limit rows; a full hash
\* makes hash_insert probe forever
RefreshRowOf(limit) ==
  /\ crashed # "segv"
  /\ rpc = "rows"
  /\ rrows < limit
  /\ \E key \in DbKeys :
     \E moved \in IF table.slots[rpos].arena.used + 4 + Len(RowBuf(nrefresh))
                       + Len(key) > table.slots[rpos].arena.capacity
                   THEN BOOLEAN ELSE {FALSE} :   \* realloc runs only then
       LET buf == RowBuf(nrefresh)
           r == LoadRow(table.slots[rpos], key, buf, moved) IN
       /\ table' = [table EXCEPT !.slots[rpos] = r.slot]
       /\ rpc' = IF r.status = "ok" THEN "rows" ELSE "hung"
       /\ rrows' = IF r.status = "ok" THEN rrows + 1 ELSE rrows
       /\ loaded' = IF r.status = "ok" /\ table.slots[rpos].index.cap # 0
                       /\ Len(key) # 0
                    THEN [loaded EXCEPT ![rpos] = @ \cup {[key |-> key, buf |-> buf]}]
                    ELSE loaded
  /\ UNCHANGED <<rpos, rsize, rfail, db_open, nrefresh, cswrites, midfetch, crashed>>
  /\ UNCHANGED cvars
  /\ UNCHANGED lvars

RefreshRow == RefreshRowOf(MaxRows)

\* the same when the SELECT yields one row more than any COUNT reports
RefreshRowMore == RefreshRowOf(MaxRows + 1)

\* sqlite3_step returns SQLITE_DONE, or an error that is only logged
RefreshRowsEnd ==
  /\ crashed # "segv"
  /\ rpc = "rows"
  /\ \/ UNCHANGED rfail
     \/ rfail' = TRUE
  /\ rpc' = "stats"
  /\ UNCHANGED <<table, rpos, rsize, rrows, db_open, nrefresh, loaded, cswrites, midfetch, crashed>>
  /\ UNCHANGED cvars
  /\ UNCHANGED lvars

\* table->stats.rows = rows; min_id and max_id are 0 for a string index
RefreshStats ==
  /\ crashed # "segv"
  /\ rpc = "stats"
  /\ table' = [table EXCEPT !.stats = [rows |-> rrows, min_id |-> 0, max_id |-> 0]]
  /\ rpc' = "publish"
  /\ UNCHANGED <<rpos, rsize, rrows, rfail, db_open, nrefresh, loaded, cswrites, midfetch, crashed>>
  /\ UNCHANGED cvars
  /\ UNCHANGED lvars

\* table->current_slot = pos; table_load_from_db returns and
\* data_load_all_tables_from_db calls db_disconnect
RefreshPublish ==
  /\ crashed # "segv"
  /\ rpc = "publish"
  /\ table' = [table EXCEPT !.current_slot = rpos]
  /\ cswrites' = cswrites + 1
  /\ rpc' = "done"
  /\ rsize' = 0
  /\ rrows' = 0
  /\ db_open' = FALSE
  /\ rfail' = FALSE
  /\ midfetch' = FALSE
  /\ UNCHANGED <<rpos, nrefresh, loaded, crashed>>
  /\ UNCHANGED cvars
  /\ UNCHANGED lvars

(***************************************************************************)
(* Wire protocol (protocol.h) and the sizes of server.c                    *)
(***************************************************************************)
MELIAN_HEADER_VERSION == 17
MELIAN_ACTION_FETCH == 70
MELIAN_ACTION_DESCRIBE_SCHEMA == 68
MELIAN_ACTION_GET_STATISTICS == 115
MELIAN_ACTION_QUIT == 113
HeaderSize == 8               \* sizeof(MelianRequestHeader)

MELIAN_MAX_KEY_LEN == 2       \* 256 in server.c, scaled down
MELIAN_RBUF_SIZE == 20        \* 4096 in server.c, scaled down
SockBuf == 5                  \* capacity of the socket's send buffer
MaxReqs == 2                  \* requests in the client's stream

Min(a, b) == IF a < b THEN a ELSE b
Take(s, n) == SubSeq(s, 1, n)
Drop(s, n) == SubSeq(s, n + 1, Len(s))

\* ntohl of the four length bytes of a header
NtoHL(b) == ((b[1] * 256 + b[2]) * 256 + b[3]) * 256 + b[4]

\* static buffers a response can point at: the schema JSON built at start,
\* the status JSON buffer, the "BYE" literal
SchemaObj == 3
StatusObj == 4
ByeObj == 5
SchemaJson == <<123, 125>>
StatusJson == <<123, 115, 125>>
\* "{\"BYE\":true}"
ByeJson == <<123, 34, 66, 89, 69, 34, 58, 116, 114, 117, 101, 125>>
\* status->json.jbuf as the handlers find it: the buffer where the model
\* keeps its content, elsewhere the document that does not change
StatusBuf(tbl) == IF "jbuf" \in DOMAIN tbl THEN tbl.jbuf ELSE StatusJson

ObjPtr(obj) == [arena |-> obj, gen |-> 1, off |-> 0]
PtrAdd(p, k) == [p EXCEPT !.off = @ + k]

\* what write/writev reads at [p, p + len): the bytes, or ok = FALSE when p
\* is not the address of live memory
MemRead(tbl, p, len) ==
  IF p.arena \in {1, 2}
  THEN LET arena == tbl.slots[p.arena - 1].arena IN
       IF PtrInArena(p, arena, len)
       THEN [ok |-> TRUE, bytes |-> ArenaBytes(arena, p.off, len)]
       ELSE [ok |-> FALSE, bytes |-> [i \in 1..len |-> Garbage]]
  ELSE IF p.arena \in {SchemaObj, StatusObj, ByeObj}
  THEN LET obj == IF p.arena = SchemaObj THEN SchemaJson
                  ELSE IF p.arena = StatusObj THEN StatusBuf(tbl) ELSE ByeJson
       IN [ok |-> TRUE, bytes |-> SubSeq(obj, p.off + 1, p.off + len)]
  ELSE [ok |-> FALSE, bytes |-> [i \in 1..len |-> Garbage]]

\* what an access through a pointer that is not the address of live memory
\* can do: cmp is the outcome of key_equals reading through it (the process
\* dies, or the bytes there compare equal or different), wr the outcome of
\* write/writev given it (EFAULT, or the bytes mapped there are sent)
UbModes ==
  { [cmp |-> "fault", wr |-> "efault"], [cmp |-> "differ", wr |-> "efault"],
    [cmp |-> "equal", wr |-> "efault"], [cmp |-> "equal", wr |-> "garbage"] }

\* history: every byte written carries the ordinal of the request it answers
Tagged(bytes, r) == [i \in 1..Len(bytes) |-> [b |-> bytes[i], r |-> r]]

(***************************************************************************)
(* struct conn_state_t and the handlers of server.c.  The handlers work on *)
(* a record m: the connection c with everything else they read or write.   *)
(***************************************************************************)
\* a conn_state_t as on_accept leaves it.  rbuf and wbuf hold the bytes
\* below rbuf_len and wbuf_len.  History fields: pending_tag (the request
\* pending_ref answers), consumed (bytes of the stream parsed so far), and
\* for the request being parsed hstart (offset of its header in the stream),
\* hpend (output was pending when its header was parsed), hsplit (its
\* oversized key was consumed over more than one on_read).
ConnAccepted ==
  [fd |-> 1, rev |-> TRUE, wev |-> FALSE,
   rbuf |-> <<>>, rbuf_len |-> 0, rbuf_pos |-> 0,
   wbuf |-> <<>>, wbuf_len |-> 0, wbuf_pos |-> 0,
   pending_ref |-> NULL, pending_ref_len |-> 0, pending_ref_pos |-> 0,
   hdr |-> <<>>, hdr_have |-> 0, action |-> 0, table_id |-> 0, index_id |-> 0,
   key_len |-> 0, key_have |-> 0, discarding |-> FALSE,
   pending_tag |-> 0, hstart |-> 0, hpend |-> FALSE, hsplit |-> FALSE,
   consumed |-> 0]

OutputPending(c) ==
  \/ c.wbuf_pos < c.wbuf_len
  \/ c.pending_ref # NULL /\ c.pending_ref_pos < c.pending_ref_len

\* conn_close: events deleted, fd closed, state reset, struct pushed on the
\* free list (whether or not it is on the list already)
ConnClose(m) ==
  [m EXCEPT
     !.c = [@ EXCEPT !.rev = FALSE, !.wev = FALSE, !.fd = 0 - 1,
                     !.rbuf = <<>>, !.rbuf_len = 0, !.rbuf_pos = 0,
                     !.wbuf = <<>>, !.wbuf_len = 0, !.wbuf_pos = 0,
                     !.pending_ref = NULL, !.pending_ref_len = 0,
                     !.pending_ref_pos = 0,
                     !.hdr_have = 0, !.key_have = 0, !.key_len = 0,
                     !.action = 0, !.table_id = 0, !.index_id = 0,
                     !.discarding = FALSE],
     !.free = Append(@, 1)]

\* queue_response: one writev at once, whatever is already queued; the
\* socket takes what its send buffer has room for.  A data pointer that is
\* not the address of live memory makes writev fail with EFAULT or send
\* whatever is mapped there.
QueueResponse(m, hdr, data, data_len, tag) ==
  LET hdr_len == Len(hdr)
      has_data == data # NULL /\ data_len # 0
      total == hdr_len + data_len
      mem == MemRead(m.tbl, data, data_len)
  IN
  IF hdr_len = 0 /\ ~has_data THEN m
  ELSE IF m.c.fd < 0 THEN ConnClose(m)
  ELSE IF has_data /\ ~mem.ok /\ m.ub.wr = "efault" THEN ConnClose(m)
  ELSE
    LET bytes == Tagged(hdr \o (IF has_data THEN mem.bytes ELSE <<>>), tag)
        n == Min(SockBuf - m.sndq, total)
        sent == [m EXCEPT !.wire = @ \o Take(bytes, n), !.sndq = @ + n]
    IN
    IF n = total THEN sent
    ELSE
      LET written == IF hdr_len > 0
                     THEN (IF n < hdr_len THEN 0 ELSE n - hdr_len)
                     ELSE n
          c1 == IF hdr_len > 0 /\ n < hdr_len
                THEN [m.c EXCEPT !.wbuf = Take(@, m.c.wbuf_len)
                                          \o Drop(Tagged(hdr, tag), n),
                                 !.wbuf_len = @ + (hdr_len - n)]
                ELSE m.c
          c2 == IF has_data /\ written < data_len
                THEN [c1 EXCEPT !.pending_ref = PtrAdd(data, written),
                                !.pending_ref_len = data_len - written,
                                !.pending_ref_pos = 0,
                                !.pending_tag = tag]
                ELSE c1
      IN [sent EXCEPT !.c = [c2 EXCEPT !.wev = TRUE]]

\* on_write: flush wbuf, then pending_ref, until the socket would block;
\* when both are flushed, delete the write event and clear the queue
OnWriteDone(m) ==
  [m EXCEPT !.c = [@ EXCEPT !.wev = FALSE,
                            !.wbuf = <<>>, !.wbuf_len = 0, !.wbuf_pos = 0,
                            !.pending_ref = NULL, !.pending_ref_len = 0,
                            !.pending_ref_pos = 0]]

OnWriteConn(m) ==
  LET c == m.c
      room == SockBuf - m.sndq
      wrem == c.wbuf_len - c.wbuf_pos
      n1 == Min(room, wrem)
      m1 == [m EXCEPT !.wire = @ \o SubSeq(c.wbuf, c.wbuf_pos + 1, c.wbuf_pos + n1),
                      !.sndq = @ + n1,
                      !.c = [@ EXCEPT !.wbuf_pos = @ + n1]]
      prem == IF c.pending_ref # NULL /\ c.pending_ref_pos < c.pending_ref_len
              THEN c.pending_ref_len - c.pending_ref_pos ELSE 0
      mem == MemRead(m.tbl, PtrAdd(c.pending_ref, c.pending_ref_pos), prem)
      n2 == Min(room - n1, prem)
      m2 == [m1 EXCEPT !.wire = @ \o Tagged(Take(mem.bytes, n2), c.pending_tag),
                       !.sndq = @ + n2,
                       !.c = [@ EXCEPT !.pending_ref_pos = @ + n2]]
  IN
  IF n1 < wrem THEN m1
  ELSE IF prem = 0 THEN OnWriteDone(m1)
  ELSE IF ~mem.ok /\ m.ub.wr = "efault" THEN ConnClose(m1)
  ELSE IF n2 < prem THEN m2
  ELSE OnWriteDone(m2)

\* C10 mutant: any version byte is accepted
VersionOkAny(version) == TRUE

\* H->data.version != MELIAN_HEADER_VERSION closes the connection
VersionOk(version) == version = MELIAN_HEADER_VERSION

\* C9 mutant: no key is too long
KeyTooLongNever(key_len) == FALSE

\* state->discarding = key_len > MELIAN_MAX_KEY_LEN
KeyTooLong(key_len) == key_len > MELIAN_MAX_KEY_LEN

\* Step 1 of the loop of on_read: the header at rbuf_pos
ParseHeader(m) ==
  LET c == m.c
      H == SubSeq(c.rbuf, c.rbuf_pos + 1, c.rbuf_pos + HeaderSize)
      key_len == NtoHL(SubSeq(H, 5, 8))
  IN [m EXCEPT !.c = [@ EXCEPT !.hdr = H,
                               !.action = H[2],
                               !.table_id = H[3],
                               !.index_id = H[4],
                               !.key_len = key_len,
                               !.rbuf_pos = @ + HeaderSize,
                               !.hdr_have = HeaderSize,
                               !.discarding = KeyTooLong(key_len),
                               !.key_have = 0,
                               !.hstart = c.consumed,
                               !.hpend = OutputPending(c),
                               !.hsplit = FALSE,
                               !.consumed = @ + HeaderSize]]

\* Step 3: rptr, rlen, rfmt of the request whose key is complete
Lookup(m) ==
  LET c == m.c
      key == SubSeq(c.rbuf, c.rbuf_pos + 1, c.rbuf_pos + c.key_len)
      none == [status |-> "none", rptr |-> NULL, rlen |-> 0, rfmt |-> 0,
               frame |-> <<>>, timer |-> 0]
  IN
  IF c.discarding THEN none
  ELSE IF c.action = MELIAN_ACTION_FETCH
  THEN LET f == DataFetchInline(m.tbl, c.table_id, c.index_id, key, m.ub.cmp)
           slot == m.tbl.slots[f.slot]
           bucket == slot.index.tab[f.idx]
       IN IF f.status = "hit"
          THEN [status |-> "hit", rptr |-> bucket.frame_ptr,
                rlen |-> bucket.frame_len, rfmt |-> 1,
                frame |-> ArenaBytes(slot.arena, bucket.frame_ptr.off,
                                     bucket.frame_len),
                timer |-> 0]
          ELSE [none EXCEPT !.status = f.status]
  ELSE IF c.action = MELIAN_ACTION_DESCRIBE_SCHEMA
  THEN [none EXCEPT !.status = "schema", !.rptr = ObjPtr(SchemaObj),
                    !.rlen = Len(SchemaJson)]
  ELSE IF c.action = MELIAN_ACTION_GET_STATISTICS
  THEN [none EXCEPT !.status = "stats", !.rptr = ObjPtr(StatusObj),
                    !.rlen = Len(StatusJson)]
  ELSE IF c.action = MELIAN_ACTION_QUIT
  THEN [none EXCEPT !.status = "quit", !.rptr = ObjPtr(ByeObj),
                    !.rlen = Len(ByeJson), !.timer = 1]
  ELSE none

\* C11 mutant: the zero response has no bytes
zero_hdr_none == <<>>

\* static const uint8_t zero_hdr[4] = {0}
zero_hdr == <<0, 0, 0, 0>>

\* Step 4 and the end of one iteration: queue the response, consume the
\* key, reset the parse state
Respond(m, l) ==
  LET c == m.c
      tag == Len(m.handled) + 1
      framed == l.rptr # NULL /\ l.rlen # 0
      q == IF framed
           THEN IF l.rfmt = 0
                THEN QueueResponse(m, BE32(l.rlen), l.rptr, l.rlen, tag)
                ELSE QueueResponse(m, <<>>, l.rptr, l.rlen, tag)
           ELSE QueueResponse(m, zero_hdr, NULL, 0, tag)
      entry == [hdr |-> c.hdr, start |-> c.hstart, key_len |-> c.key_len,
                discarded |-> c.discarding, key_have |-> c.key_have,
                status |-> l.status, frame |-> l.frame,
                resp_len |-> IF framed
                             THEN (IF l.rfmt = 0 THEN 4 + l.rlen ELSE l.rlen)
                             ELSE 4,
                zero |-> ~framed,
                rejected |-> FALSE, hpend |-> c.hpend, split |-> c.hsplit,
                fd_before |-> c.fd, fd_after |-> q.c.fd]
      skip == IF q.c.discarding THEN 0 ELSE q.c.key_len
  IN [q EXCEPT !.c = [@ EXCEPT !.rbuf_pos = @ + skip,
                               !.consumed = @ + skip,
                               !.hdr_have = 0,
                               !.key_have = 0,
                               !.discarding = FALSE],
               !.handled = Append(@, entry),
               !.tev = @ + l.timer]

\* the compaction of the read buffer after the loop
Compact(m) ==
  IF m.c.rbuf_pos > 0
  THEN [m EXCEPT !.c = [@ EXCEPT !.rbuf = Drop(@, m.c.rbuf_pos),
                                 !.rbuf_len = @ - m.c.rbuf_pos,
                                 !.rbuf_pos = 0]]
  ELSE m

\* the loop of on_read over the complete requests of the buffer
RECURSIVE ReadLoop(_)
ReadLoop(m) ==
  LET c == m.c
      avail == c.rbuf_len - c.rbuf_pos
      fresh == c.hdr_have < HeaderSize
  IN
  IF fresh /\ avail < HeaderSize THEN Compact(m)
  ELSE IF fresh /\ ~VersionOk(c.rbuf[c.rbuf_pos + 1])
  THEN ConnClose([m EXCEPT !.handled = Append(@,
         [hdr |-> SubSeq(c.rbuf, c.rbuf_pos + 1, c.rbuf_pos + HeaderSize),
          start |-> c.consumed, key_len |-> 0, discarded |-> FALSE,
          key_have |-> 0, status |-> "none", frame |-> <<>>, resp_len |-> 0,
          zero |-> FALSE, rejected |-> TRUE, hpend |-> OutputPending(c),
          split |-> FALSE,
          fd_before |-> c.fd, fd_after |-> 0 - 1])])
  ELSE
    LET m1 == IF fresh THEN ParseHeader(m) ELSE m
        c1 == m1.c
        avail1 == c1.rbuf_len - c1.rbuf_pos
        to_consume == Min(c1.key_len - c1.key_have, avail1)
        m2 == IF c1.discarding
              THEN [m1 EXCEPT !.c = [@ EXCEPT !.rbuf_pos = @ + to_consume,
                                              !.key_have = @ + to_consume,
                                              !.consumed = @ + to_consume]]
              ELSE m1
        l == Lookup(m2)
    IN
    IF c1.discarding /\ m2.c.key_have < m2.c.key_len
    THEN Compact([m2 EXCEPT !.c = [@ EXCEPT !.hsplit = TRUE]])
    ELSE IF ~c1.discarding /\ avail1 < c1.key_len THEN Compact(m2)
    ELSE IF l.status = "fault" THEN [m2 EXCEPT !.crashed = "segv"]
    ELSE IF l.status = "loop" THEN [m2 EXCEPT !.crashed = "spin"]
    ELSE ReadLoop(Respond(m2, l))

\* on_read: read what the socket has into the free part of rbuf, then loop
OnReadConn(m, data) ==
  LET n == Len(data) IN
  ReadLoop([m EXCEPT !.c = [@ EXCEPT !.rbuf = Take(@, m.c.rbuf_len) \o data,
                                     !.rbuf_len = @ + n]])

(***************************************************************************)
(* The client, the socket and the event loop                               *)
(***************************************************************************)
Machine(ub) ==
  [c |-> conn, wire |-> wire, sndq |-> sndq, handled |-> handled,
   free |-> conn_free, tev |-> tev, tbl |-> table, ub |-> ub,
   crashed |-> crashed]

Commit(m) ==
  /\ conn' = m.c
  /\ wire' = m.wire
  /\ sndq' = m.sndq
  /\ handled' = m.handled
  /\ conn_free' = m.free
  /\ tev' = m.tev
  /\ crashed' = m.crashed

\* a request as the client encodes it: 8-byte header and payload
Request(version, action, table_id, index_id, length, payload) ==
  <<version, action, table_id, index_id>> \o BE32(length) \o payload

FetchReq(key) ==
  Request(MELIAN_HEADER_VERSION, MELIAN_ACTION_FETCH, TableId, 0, Len(key), key)
DescribeReq ==
  Request(MELIAN_HEADER_VERSION, MELIAN_ACTION_DESCRIBE_SCHEMA, 0, 0, 0, <<>>)
OversizedReq ==
  Request(MELIAN_HEADER_VERSION, MELIAN_ACTION_FETCH, TableId, 0,
          MELIAN_MAX_KEY_LEN + 1,
          [i \in 1..(MELIAN_MAX_KEY_LEN + 1) |-> MELIAN_HEADER_VERSION])
BadVersionReq ==
  Request(MELIAN_HEADER_VERSION + 1, MELIAN_ACTION_FETCH, TableId, 0, 0, <<>>)

\* FETCH of a table id that is not configured, and of an index id that is
\* not below the table's index_count
FetchBadTableReq ==
  Request(MELIAN_HEADER_VERSION, MELIAN_ACTION_FETCH, TableId + 1, 0, 1, <<2>>)
FetchBadIndexReq ==
  Request(MELIAN_HEADER_VERSION, MELIAN_ACTION_FETCH, TableId, IndexCount, 1, <<2>>)

RECURSIVE Concat(_)
Concat(seqs) == IF seqs = <<>> THEN <<>> ELSE Head(seqs) \o Concat(Tail(seqs))

StreamsOf(kinds) ==
  { Concat(reqs) : reqs \in UNION { [1..n -> kinds] : n \in 1..MaxReqs } }

\* the client takes bytes out of the socket: one byte or all there is
ClientRecv ==
  /\ sndq > 0
  /\ \E k \in {1, sndq} : sndq' = sndq - k
  /\ UNCHANGED <<conn, tosend, stream, wire, handled, conn_free, tev>>
  /\ UNCHANGED <<midfetch, crashed>>
  /\ UNCHANGED tvars
  /\ UNCHANGED lvars

\* the read event fires: on_read.  read(fd) returns n bytes of what the
\* client has sent: at least one, at most the free space of rbuf
OnRead ==
  /\ io_backend = "libevent"
  /\ lev.loop = "run"
  /\ crashed = "no"
  /\ conn.fd >= 0
  /\ conn.rev
  /\ \E n \in 1..Min(MELIAN_RBUF_SIZE - conn.rbuf_len, Len(tosend)) :
       \E m \in { OnReadConn(Machine(ub), Take(tosend, n)) : ub \in UbModes } :
         /\ Commit(m)
         /\ tosend' = Drop(tosend, n)
  /\ UNCHANGED <<stream, midfetch>>
  /\ UNCHANGED tvars
  /\ UNCHANGED lvars

\* the write event fires: on_write
OnWrite ==
  /\ io_backend = "libevent"
  /\ lev.loop = "run"
  /\ crashed = "no"
  /\ conn.fd >= 0
  /\ conn.wev
  /\ sndq < SockBuf
  /\ \E m \in { OnWriteConn(Machine(ub)) : ub \in UbModes } : Commit(m)
  /\ UNCHANGED <<tosend, stream, midfetch>>
  /\ UNCHANGED tvars
  /\ UNCHANGED lvars

\* the event loop calls data_fetch_inline for a FETCH (server.c, Step 3)
\* while the refresh thread is wherever it is
FetchKeys == {<<1>>, <<2>>, <<3>>}

Fetch ==
  /\ crashed = "no"
  /\ \E outcome \in { LET status == DataFetchInline(table, TableId, 0, key,
                                                     ub.cmp).status
                        IN IF status = "fault" THEN "segv"
                           ELSE IF status = "loop" THEN "spin" ELSE "no" :
                        key \in FetchKeys, ub \in UbModes } :
       /\ crashed' = outcome
       /\ midfetch' = (midfetch \/ rpc \in Building)
  /\ UNCHANGED tvars
  /\ UNCHANGED cvars
  /\ UNCHANGED lvars

(***************************************************************************)
(* The arena and the hash as a library (arena.c, hash.c): the calls the    *)
(* loader and the tests make, on one Arena and one Hash built over it.     *)
(***************************************************************************)
MaxStored == 3                \* arena_store calls made by the stores between two resets
MaxResets == 1                \* arena_reset calls in one behaviour
MaxHashCap == 2               \* largest capacity given to hash_build
MaxInserted == 2              \* hash_insert calls on one hash

LibArenaId == 6               \* names the buffer of sarena in a pointer
StoreSrcs == {<<>>, <<6, 7, 8>>}
StoreKeys == {<<>>, <<3>>, <<4>>, <<5>>}
HashCaps == { c \in 1..MaxHashCap : NextPowerOfTwo(c, 1) = c }

\* arena_get_ptr (arena.h): the address of the byte at index, NULL for an
\* index outside the buffer
ArenaGetPtr(arena, index) ==
  IF index >= arena.capacity THEN NULL
  ELSE [arena |-> arena.id, gen |-> arena.gen, off |-> index]

\* hash_finalize_pointers: every bucket with key_len # 0 gets the addresses
\* of the indices it holds
HashFinalizePointers(hash, arena) ==
  [hash EXCEPT !.tab = [i \in DOMAIN hash.tab |->
     LET b == hash.tab[i] IN
     IF b.key_len = 0 THEN b
     ELSE [b EXCEPT !.key_ptr = ArenaGetPtr(arena, b.key_ptr.off),
                    !.frame_ptr = ArenaGetPtr(arena, b.frame_ptr.off)]]]

\* the record kept of the last call
Res(op, key, src, index, grew, g) ==
  [op |-> op, key |-> key, src |-> src, index |-> index, grew |-> grew,
   status |-> g.status, idx |-> g.idx, probes |-> g.probes]
NoGet == [status |-> "none", idx |-> 0, probes |-> 0]

\* realloc in arena_check_and_grow: the block stays, moves, or cannot be
\* had (LOG_FATAL: the process exits)
Reallocs == {"kept", "moved", "nomem"}
Grows(arena, extra) == arena.used + extra > arena.capacity

LibUnchanged ==
  /\ UNCHANGED tvars
  /\ UNCHANGED evars
  /\ UNCHANGED xvars
  /\ UNCHANGED cvars
  /\ UNCHANGED <<midfetch, crashed>>
  /\ UNCHANGED kvars
  /\ UNCHANGED dvars

\* arena_store(arena, src, len)
LibStore ==
  /\ sphase = "build"
  /\ Len(stored) < MaxStored
  /\ \E src \in StoreSrcs, out \in Reallocs :
       LET grew == Grows(sarena, Len(src))
           st == ArenaStore(sarena, src, out = "moved")
       IN IF grew /\ out = "nomem"
          THEN /\ sphase' = "exit"
               /\ sres' = Res("store", <<>>, src, 0, grew, NoGet)
               /\ UNCHANGED <<sarena, stored>>
          ELSE /\ sarena' = st.arena
               /\ stored' = Append(stored, [index |-> st.index, src |-> src,
                                            kind |-> "raw"])
               /\ sres' = Res("store", <<>>, src, st.index, grew, NoGet)
               /\ UNCHANGED sphase
  /\ UNCHANGED <<shash, inserted, sresets>>
  /\ LibUnchanged

\* arena_store_framed(arena, src, len): two arena_store calls
LibStoreFramed ==
  /\ sphase = "build"
  /\ Len(stored) + 1 < MaxStored
  /\ \E src \in StoreSrcs, out \in Reallocs :
       LET grew == Grows(sarena, 4 + Len(src))
           st == ArenaStoreFramed(sarena, src, out = "moved")
       IN IF grew /\ out = "nomem"
          THEN /\ sphase' = "exit"
               /\ sres' = Res("store_framed", <<>>, src, 0, grew, NoGet)
               /\ UNCHANGED <<sarena, stored>>
          ELSE /\ sarena' = st.arena
               /\ stored' = stored \o
                    << [index |-> st.index, src |-> BE32(Len(src)), kind |-> "hdr"],
                       [index |-> st.index + 4, src |-> src, kind |-> "body"] >>
               /\ sres' = Res("store_framed", <<>>, src, st.index, grew, NoGet)
               /\ UNCHANGED sphase
  /\ UNCHANGED <<shash, inserted, sresets>>
  /\ LibUnchanged

\* arena_reset(arena).  No caller keeps a hash across the reset of its
\* arena (table_load_from_db destroys and rebuilds it right after), so the
\* hash goes with it.
LibReset ==
  /\ sphase \in {"build", "final"}
  /\ sresets < MaxResets
  /\ sarena' = ArenaReset(sarena)
  /\ shash' = NullHash
  /\ sphase' = "build"
  /\ stored' = <<>>
  /\ inserted' = <<>>
  /\ sresets' = sresets + 1
  /\ sres' = Res("reset", <<>>, <<>>, 0, FALSE, NoGet)
  /\ LibUnchanged

\* hash_build(cap_pow2, arena)
LibHashBuild ==
  /\ sphase = "build"
  /\ shash.cap = 0
  /\ \E cap \in HashCaps : shash' = HashBuild(cap)
  /\ sres' = Res("hash_build", <<>>, <<>>, 0, FALSE, NoGet)
  /\ UNCHANGED <<sarena, sphase, stored, inserted, sresets>>
  /\ LibUnchanged

\* the frames arena_store_framed has stored: index and length (4 + len)
StoredFrames ==
  { [frame |-> stored[i].index, frame_len |-> 4 + Len(stored[i + 1].src)] :
      i \in { j \in 1..Len(stored) : stored[j].kind = "hdr" } }

\* hash_insert(hash, key, key_len, frame, frame_len); with no bucket free
\* its loop never ends
LibHashInsert ==
  /\ sphase = "build"
  /\ shash.cap # 0
  /\ Len(inserted) < MaxInserted
  /\ \E key \in StoreKeys, f \in StoredFrames, out \in Reallocs :
       LET grew == Grows(sarena, Len(key))
           r == HashInsert(shash, sarena, key, f.frame, f.frame_len,
                           out = "moved")
       IN IF r.status = "loop"
          THEN /\ sphase' = "hung"
               /\ sres' = Res("hash_insert", key, <<>>, 0, FALSE, NoGet)
               /\ UNCHANGED <<sarena, shash, stored, inserted>>
          ELSE IF grew /\ out = "nomem"
          THEN /\ sphase' = "exit"
               /\ sres' = Res("hash_insert", key, <<>>, 0, grew, NoGet)
               /\ UNCHANGED <<sarena, shash, stored, inserted>>
          ELSE /\ sarena' = r.arena
               /\ shash' = r.hash
               /\ stored' = Append(stored, [index |-> sarena.used, src |-> key,
                                            kind |-> "key"])
               /\ inserted' = Append(inserted, [key |-> key, frame |-> f.frame,
                                                frame_len |-> f.frame_len])
               /\ sres' = Res("hash_insert", key, <<>>, sarena.used, grew, NoGet)
               /\ UNCHANGED sphase
  /\ UNCHANGED sresets
  /\ LibUnchanged

\* hash_finalize_pointers(hash), once the load is complete
LibFinalize ==
  /\ sphase = "build"
  /\ shash.cap # 0
  /\ shash' = HashFinalizePointers(shash, sarena)
  /\ sphase' = "final"
  /\ sres' = Res("finalize", <<>>, <<>>, 0, FALSE, NoGet)
  /\ UNCHANGED <<sarena, stored, inserted, sresets>>
  /\ LibUnchanged

\* hash_get(hash, key, key_len) on the finalized hash
LibHashGet ==
  /\ sphase = "final"
  /\ \E key \in StoreKeys :
       \E g \in { HashGet(shash, sarena, key, cmp) :
                    cmp \in {"fault", "differ", "equal"} } :
         /\ sres' = Res("hash_get", key, <<>>, 0, FALSE, g)
         /\ sphase' = IF g.status = "loop" THEN "hung"
                      ELSE IF g.status = "fault" THEN "exit" ELSE "final"
  /\ UNCHANGED <<sarena, shash, stored, inserted, sresets>>
  /\ LibUnchanged

(***************************************************************************)
(* Specifications                                                          *)
(***************************************************************************)
\* the table after a first load of two rows, as table_load_from_db builds it
LoadedSlot ==
  LET empty == [arena |-> ArenaReset(TableBuild.slots[1].arena),
                index |-> HashBuild(HashCap(2))]
      one == LoadRow(empty, <<1>>, <<7>>, FALSE).slot
  IN LoadRow(one, <<2>>, <<9>>, FALSE).slot

LoadedTable ==
  [TableBuild EXCEPT !.slots[1] = LoadedSlot,
                     !.current_slot = 1,
                     !.stats = [rows |-> 2, min_id |-> 0, max_id |-> 0]]

(***************************************************************************)
(* Startup, cron and shutdown (src/server/melian-server.c, cron.c,         *)
(* server.c): who runs data_load_all_tables_from_db, and when.  The body   *)
(* of a refresh is the refresh thread above; here it is an interval.       *)
(***************************************************************************)
MaxTicks == 6                 \* on_tick calls in one behaviour

THREAD_MESSAGE_WAKEUP == 87   \* 'W'
THREAD_MESSAGE_QUIT == 81     \* 'Q'

CronUnchanged ==
  /\ UNCHANGED tvars
  /\ UNCHANGED evars
  /\ UNCHANGED xvars
  /\ UNCHANGED cvars
  /\ UNCHANGED svars
  /\ UNCHANGED dvars
  /\ UNCHANGED <<midfetch, crashed>>

\* C20 mutant: wakeups are taken from the pair while a load is running
LoaderAtReadOrLoading(worker) == worker \in {"read", "load"}

\* the loader thread is blocked in read(cron->pair[0], &b, 1)
LoaderAtRead(worker) == worker = "read"

\* poke_thread: write(cron->pair[1], &message, 1)
PokeThread(pair, message) == Append(pair, message)

\* main: server_initial_load calls data_load_all_tables_from_db on the main
\* thread; last_loaded is 0, so the table is due
InitialLoadBegin ==
  /\ kmain = "initial_load"
  /\ kmain' = "loading"
  /\ kin' = kin + 1
  /\ UNCHANGED <<kworker, kpair, krunning, kticks>>
  /\ CronUnchanged

\* server_initial_load returns total_rows > 0; main stops when it is 0
InitialLoadEnd ==
  /\ kmain = "loading"
  /\ kin' = kin - 1
  /\ \E rows \in BOOLEAN : kmain' = IF rows THEN "run" ELSE "stop"
  /\ UNCHANGED <<kworker, kpair, krunning, kticks>>
  /\ CronUnchanged

\* main: server_listen fails (no address to bind); main falls through to
\* server_stop and server_destroy without server_run
ServerListenFails ==
  /\ kmain = "run"
  /\ kmain' = "stop"
  /\ UNCHANGED <<kworker, kpair, krunning, kticks, kin>>
  /\ CronUnchanged

\* server_run: cron_run creates the pair, the tick event and the loader
\* thread, then the event loop is dispatched
ServerRun ==
  /\ kmain = "run"
  /\ ~krunning
  /\ krunning' = TRUE
  /\ kpair' = <<>>
  /\ kworker' = "read"
  /\ kmain' = "loop"
  /\ UNCHANGED <<kticks, kin>>
  /\ CronUnchanged

\* on_tick, every CRON_TICK_PERIOD seconds on the event loop thread
OnTick ==
  /\ kmain = "loop"
  /\ kticks < MaxTicks
  /\ kticks' = kticks + 1
  /\ kpair' = PokeThread(kpair, THREAD_MESSAGE_WAKEUP)
  /\ UNCHANGED <<kmain, kworker, krunning, kin>>
  /\ CronUnchanged

\* C40 mutant: cron_stop signals and joins whether or not cron is running
CronStopActsAlways(running) == TRUE

\* cron_stop: if (!cron->running) break
CronStopActs(running) == running

\* on_signal / on_quit: server_stop calls cron_stop, which pokes the
\* loader with a quit message and goes on to pthread_join
ServerStop ==
  /\ kmain = "loop"
  /\ CronStopActs(krunning)
  /\ krunning' = FALSE
  /\ kpair' = PokeThread(kpair, THREAD_MESSAGE_QUIT)
  /\ kmain' = "join"
  /\ UNCHANGED <<kworker, kticks, kin>>
  /\ CronUnchanged

\* C21 mutant: cron_stop does not wait for the loader
LoaderReturnedAlways(worker) == TRUE

\* pthread_join(thread, 0) returns once loader_main has returned
LoaderReturned(worker) == worker = "exited"

\* pthread_join returns once loader_main has returned; the event loop exits
CronJoin ==
  /\ kmain = "join"
  /\ LoaderReturned(kworker)
  /\ kmain' = "stop"
  /\ UNCHANGED <<kworker, kpair, krunning, kticks, kin>>
  /\ CronUnchanged

\* main: server_stop (nothing left to do), then server_destroy, whose
\* cron_destroy calls cron_stop once more before the tables are released
ServerDestroy ==
  /\ kmain = "stop"
  /\ IF CronStopActs(krunning)
     THEN /\ krunning' = FALSE
          /\ kpair' = PokeThread(kpair, THREAD_MESSAGE_QUIT)
          /\ kmain' = "join"
     ELSE /\ kmain' = "destroyed"
          /\ UNCHANGED <<kpair, krunning>>
  /\ UNCHANGED <<kworker, kticks, kin>>
  /\ CronUnchanged

\* loader_main: read one byte; a quit message ends the thread
LoaderRead ==
  /\ LoaderAtRead(kworker)
  /\ kpair # <<>>
  /\ kpair' = Tail(kpair)
  /\ kworker' = IF Head(kpair) = THREAD_MESSAGE_QUIT THEN "exited" ELSE "check"
  /\ UNCHANGED <<kmain, krunning, kticks, kin>>
  /\ CronUnchanged

\* data_load_all_tables_from_db, first pass (load = 0): is the table due?
LoaderCheck ==
  /\ kworker = "check"
  /\ \E due \in BOOLEAN :
       /\ kworker' = IF due THEN "load" ELSE "read"
       /\ kin' = IF due THEN kin + 1 ELSE kin
  /\ UNCHANGED <<kmain, kpair, krunning, kticks>>
  /\ CronUnchanged

\* second pass (load = 1) done, db_disconnect, back to read
LoaderLoadEnd ==
  /\ kworker = "load"
  /\ kin' = kin - 1
  /\ kworker' = "read"
  /\ UNCHANGED <<kmain, kpair, krunning, kticks>>
  /\ CronUnchanged

InitCron ==
  /\ kmain = "initial_load"
  /\ kworker = "none"
  /\ kpair = <<>>
  /\ krunning = FALSE
  /\ kticks = 0
  /\ kin = 0

(***************************************************************************)
(* The catalog and the refresh driver (src/server/data.c): several tables, *)
(* each with its period and its configured indexes, refreshed by           *)
(* data_load_all_tables_from_db.  What a slot holds is reduced here to the *)
(* keys each index hash answers and the time the rows were read; the       *)
(* arena and the hash themselves are modelled above.                       *)
(***************************************************************************)
MaxClock == 4                 \* the clock runs from ClockStart to MaxClock
ClockStart == 2               \* time(0) at startup, in cron ticks
DbRows == {1, 2}              \* the rows a SELECT can yield

\* the key of row r in the column of the index configured with id c
ColumnKey(c, r) == <<c, r>>

\* a slot before its first load: empty arena, no hash (indexes[] all NULL)
EmptySlot == [loaded_at |-> 0 - 1, rows |-> {}]

\* table_build: configuration copied from the spec, stats zeroed, slot 0
\* current
TableOf(id, period, index_ids) ==
  [table_id |-> id, period |-> period, indexes |-> index_ids,
   index_count |-> Len(index_ids),
   stats |-> [last_loaded |-> 0, rows |-> 0],
   current_slot |-> 0,
   slots |-> [p \in 0..1 |-> EmptySlot]]

\* config_build: the index lists a table specification can give the first
\* table (`col#id;col#id`, ids unique in 0..255, in the order written)
IndexLists == {<<0>>, <<1>>, <<1, 0>>}

\* data_build: two tables, the second with table id 3
DataBuild(index_ids) ==
  <<TableOf(0, 1, index_ids), TableOf(3, 2, <<0>>)>>

\* schema_table_json / data_refresh_schema: the document built once
SchemaTableJson(tb) ==
  [name |-> tb.table_id, id |-> tb.table_id, period |-> tb.period,
   indexes |-> [i \in 1..tb.index_count |-> [id |-> tb.indexes[i]]]]

DataRefreshSchema(tabs) == [t \in 1..Len(tabs) |-> SchemaTableJson(tabs[t])]

\* C24 mutant: a table is skipped also when exactly one period has elapsed
TooSoonOrJust(elapsed, period) == elapsed <= period

\* if (elapsed < table->period) return 0
TooSoon(elapsed, period) == elapsed < period

\* what the database gives one load: rows read, and whether an error was
\* logged on the way (connect, COUNT or SELECT failed: no rows)
DbOutcomes == {[rows |-> {}, failed |-> TRUE], [rows |-> DbRows, failed |-> FALSE]}

\* table_load_from_db(table, db, now, load)
TableLoadFromDb(tb, now, load, out) ==
  LET elapsed == now - tb.stats.last_loaded IN
  IF TooSoon(elapsed, tb.period) THEN [ret |-> 0, table |-> tb, built |-> FALSE]
  ELSE IF load = 0 THEN [ret |-> 1, table |-> tb, built |-> FALSE]
  ELSE LET pos == InactiveSlot(tb.current_slot) IN
       [ret |-> Cardinality(out.rows),
        built |-> TRUE,
        table |-> [tb EXCEPT !.slots[pos] = [loaded_at |-> now, rows |-> out.rows],
                             !.stats = [last_loaded |-> now,
                                        rows |-> Cardinality(out.rows)],
                             !.current_slot = pos]]

\* Hash* hash = slot->indexes[index_id]: index_id is used as the position
IndexSlot(tb, index_id) == index_id

\* data_fetch / table_fetch on the catalog: lookup[table_id], then the hash
\* at IndexSlot of the current slot
DataFetch(tabs, table_id, index_id, key) ==
  IF ~\E t \in 1..Len(tabs) : tabs[t].table_id = table_id
  THEN [status |-> "miss", pos |-> 0 - 1, row |-> 0, at |-> 0 - 1]
  ELSE LET tb == tabs[CHOOSE t \in 1..Len(tabs) : tabs[t].table_id = table_id]
           pos == IndexSlot(tb, index_id)
           slot == tb.slots[tb.current_slot]
       IN IF pos >= tb.index_count
          THEN [status |-> "miss", pos |-> 0 - 1, row |-> 0, at |-> 0 - 1]
          ELSE IF \E r \in slot.rows : ColumnKey(tb.indexes[pos + 1], r) = key
          THEN [status |-> "hit", pos |-> pos, row |-> key[2], at |-> slot.loaded_at]
          ELSE [status |-> "miss", pos |-> pos, row |-> 0, at |-> 0 - 1]

\* C27 mutant: the document is rebuilt from the tables at each request
DataSchemaJsonFresh(schema, tabs) ==
  [t \in 1..Len(tabs) |->
     [name |-> tabs[t].table_id, id |-> tabs[t].table_id,
      period |-> tabs[t].stats.last_loaded,
      indexes |-> [i \in 1..tabs[t].index_count |-> [id |-> tabs[t].indexes[i]]]]]

\* data_schema_json: data->schema.json, data->schema.len
DataSchemaJson(schema, tabs) == schema

DrvIdle == [pc |-> "idle", t |-> 0, now |-> 0, tables |-> 0, clock |-> ClockStart,
            cycles |-> 0]

NoHist == [pre |-> <<>>, due |-> {}, built |-> {}, failed |-> {},
           fetch |-> [status |-> "none"], described |-> {}, schema |-> <<>>]

DataUnchanged ==
  /\ UNCHANGED tvars
  /\ UNCHANGED evars
  /\ UNCHANGED xvars
  /\ UNCHANGED cvars
  /\ UNCHANGED svars
  /\ UNCHANGED kvars
  /\ UNCHANGED <<midfetch, crashed>>

\* C23 mutant: the load pass works on another table than the one t names
LoadTargetSwapped(t) == IF t = 0 THEN 2 ELSE 1

\* Table* table = data->tables[t] (tables are numbered from 1 here)
LoadTarget(t) == t + 1

\* time passes
ClockTick ==
  /\ ddrv.clock < MaxClock
  /\ ddrv' = [ddrv EXCEPT !.clock = @ + 1]
  /\ UNCHANGED <<dtabs, dhist>>
  /\ DataUnchanged

\* data_load_all_tables_from_db is entered: now = time(0)
CycleBegin ==
  /\ ddrv.pc = "idle"
  /\ ddrv.cycles = 0 \/ ddrv.now < ddrv.clock
  /\ ddrv' = [ddrv EXCEPT !.pc = "probe", !.t = 0, !.now = ddrv.clock,
                          !.tables = 0, !.cycles = 1]
  /\ dhist' = [dhist EXCEPT !.pre = dtabs, !.due = {}, !.built = {}]
  /\ UNCHANGED dtabs
  /\ DataUnchanged

\* first loop: tables += table_load_from_db(table, db, now, 0); after the
\* last table, return when nothing is due, else db_connect
ProbeStep ==
  /\ ddrv.pc = "probe"
  /\ IF ddrv.t < Len(dtabs)
     THEN LET r == TableLoadFromDb(dtabs[ddrv.t + 1], ddrv.now, 0,
                                   [rows |-> {}, failed |-> FALSE]) IN
          /\ ddrv' = [ddrv EXCEPT !.t = @ + 1, !.tables = @ + r.ret]
          /\ dhist' = [dhist EXCEPT !.due = IF r.ret = 1 THEN @ \cup {ddrv.t + 1}
                                             ELSE @]
          /\ dtabs' = [dtabs EXCEPT ![ddrv.t + 1] = r.table]
     ELSE /\ ddrv' = [ddrv EXCEPT !.pc = IF ddrv.tables = 0 THEN "idle" ELSE "load",
                                  !.t = 0]
          /\ UNCHANGED <<dtabs, dhist>>
  /\ DataUnchanged

\* second loop: rows += table_load_from_db(table, db, now, 1); after the
\* last table, db_disconnect and return
LoadStep ==
  /\ ddrv.pc = "load"
  /\ IF ddrv.t < Len(dtabs)
     THEN \E out \in DbOutcomes :
          LET u == LoadTarget(ddrv.t)
              r == TableLoadFromDb(dtabs[u], ddrv.now, 1, out) IN
          /\ dtabs' = [dtabs EXCEPT ![u] = r.table]
          /\ ddrv' = [ddrv EXCEPT !.t = @ + 1]
          /\ dhist' = [dhist EXCEPT
                         !.built = IF r.built THEN @ \cup {u} ELSE @,
                         !.failed = IF ~r.built THEN @
                                    ELSE IF out.failed THEN @ \cup {u}
                                    ELSE @ \ {u}]
     ELSE /\ ddrv' = [ddrv EXCEPT !.pc = "idle", !.t = 0]
          /\ UNCHANGED <<dtabs, dhist>>
  /\ DataUnchanged

\* a FETCH on the event loop thread, for an index id the schema advertises
CatalogFetch ==
  /\ \E t \in 1..Len(dtabs) : \E i \in 1..dtabs[t].index_count : \E r \in DbRows :
       LET c == dtabs[t].indexes[i]
           f == DataFetch(dtabs, dtabs[t].table_id, c, ColumnKey(c, r)) IN
       dhist' = [dhist EXCEPT !.fetch = [status |-> f.status, pos |-> f.pos,
                                          row |-> f.row, at |-> f.at,
                                          t |-> t, i |-> i, r |-> r,
                                          held |-> r \in dtabs[t].slots[
                                                     dtabs[t].current_slot].rows]]
  /\ UNCHANGED <<dtabs, ddrv>>
  /\ DataUnchanged

\* a DESCRIBE_SCHEMA on the event loop thread
CatalogDescribe ==
  /\ dhist' = [dhist EXCEPT !.described =
                 @ \cup {DataSchemaJson(dhist.schema, dtabs)}]
  /\ UNCHANGED <<dtabs, ddrv>>
  /\ DataUnchanged

(***************************************************************************)
(* The two I/O backends and the shutdown a QUIT request starts.  The       *)
(* server runs one backend, chosen when it is built.  In the libevent      *)
(* backend QUIT arms a one second timer whose callback on_quit stops the   *)
(* loop; the listener stays registered until server_destroy.  In the       *)
(* io_uring backend the handlers only prepare submission queue entries,    *)
(* and the loop hands them to the kernel at its next turn.                 *)
(***************************************************************************)
MaxAccepts == 1               \* on_accept calls after the modelled connection
URING_RBUF_SIZE == 20         \* 4096 in server_uring.c, scaled down
URING_WBUF_SIZE == 10         \* 65536 in server_uring.c, scaled down below the largest response
URING_MAX_KEY_LEN == 2        \* 256 in server_uring.c, scaled down

\* history: handled[i] is the answer to a QUIT
QuitHandled == \E i \in 1..Len(handled) : handled[i].status = "quit"

\* the loop dispatching, no connection accepted besides the modelled one.
\* History: full tells whether the socket's send buffer had no room when
\* the loop was stopped.
LevRun == [loop |-> "run", accepted |-> 0, late |-> 0, full |-> FALSE]

\* on_accept: the listener's callback takes a conn_state_t from the free
\* list or allocates one, and adds its read event.  History: late counts
\* the calls made after a QUIT was handled.
OnAccept ==
  /\ io_backend = "libevent"
  /\ lev.loop = "run"
  /\ lev.accepted < MaxAccepts
  /\ lev' = [lev EXCEPT !.accepted = @ + 1,
                        !.late = @ + (IF QuitHandled THEN 1 ELSE 0)]
  /\ conn_free' = IF conn_free # <<>> THEN Tail(conn_free) ELSE conn_free
  /\ UNCHANGED <<conn, tosend, stream, wire, handled, sndq, tev>>
  /\ UNCHANGED <<midfetch, crashed, io_backend, uctx, rowst>>
  /\ UNCHANGED xvars
  /\ UNCHANGED tvars
  /\ UNCHANGED <<svars, kvars, dvars>>

\* an event of the connection is ready: bytes to read, or the write event
\* added and room in the socket
LevReady ==
  /\ conn.fd >= 0
  /\ crashed = "no"
  /\ \/ conn.rev /\ tosend # <<>> /\ conn.rbuf_len < MELIAN_RBUF_SIZE
     \/ conn.wev /\ sndq < SockBuf

\* the timer armed by a QUIT fires one second later: on_quit -> server_stop
\* -> event_base_loopexit ends the dispatch.  The second
\* is taken to be long enough for the loop to dispatch every event that is
\* ready.  (What server_stop does to the cron thread is the action
\* ServerStop.)
OnQuit ==
  /\ io_backend = "libevent"
  /\ lev.loop = "run"
  /\ tev > 0
  /\ ~LevReady
  /\ tev' = tev - 1
  /\ lev' = [lev EXCEPT !.loop = "stopped", !.full = (sndq = SockBuf)]
  /\ UNCHANGED <<conn, tosend, stream, wire, handled, sndq, conn_free>>
  /\ UNCHANGED <<midfetch, crashed, io_backend, uctx, rowst>>
  /\ UNCHANGED xvars
  /\ UNCHANGED tvars
  /\ UNCHANGED <<svars, kvars, dvars>>

\* a uring_conn_t as uring_conn_alloc leaves it.  rbuf and wbuf hold the
\* bytes below rbuf_len and wbuf_len; pending_ref holds the bytes it points
\* to, <<>> for NULL.
UringConnAlloc ==
  [fd |-> 1, rbuf |-> <<>>, rbuf_pos |-> 0, wbuf |-> <<>>, wbuf_pos |-> 0,
   pending_ref |-> <<>>, pending_ref_pos |-> 0,
   hdr_have |-> 0, action |-> 0, table_id |-> 0, index_id |-> 0,
   key_len |-> 0, key_have |-> 0, discarding |-> FALSE,
   recv_pending |-> FALSE, send_pending |-> FALSE]

\* the backend that is not running
UringOff ==
  [pc |-> "off", running |-> FALSE, quit_requested |-> FALSE,
   sq |-> <<>>, fly |-> {}, cq |-> <<>>, c |-> UringConnAlloc, done |-> <<>>]

\* uring_submit_recv: prepares an entry; nothing reaches the kernel here
UringSubmitRecv(u) ==
  IF u.c.recv_pending THEN u
  ELSE [u EXCEPT !.sq = Append(@, [op |-> "recv", src |-> "rbuf", off |-> 0, len |-> 0]),
                 !.c = [@ EXCEPT !.recv_pending = TRUE]]

\* uring_submit_send: prepares a send of the rest of wbuf or, when wbuf is
\* flushed, of the rest of pending_ref
UringSubmitSend(u) ==
  LET c == u.c IN
  IF c.send_pending THEN u
  ELSE IF c.wbuf_pos < Len(c.wbuf)
  THEN [u EXCEPT !.sq = Append(@, [op |-> "send", src |-> "wbuf",
                                   off |-> c.wbuf_pos,
                                   len |-> Len(c.wbuf) - c.wbuf_pos]),
                 !.c = [@ EXCEPT !.send_pending = TRUE]]
  ELSE IF c.pending_ref # <<>> /\ c.pending_ref_pos < Len(c.pending_ref)
  THEN [u EXCEPT !.sq = Append(@, [op |-> "send", src |-> "ref",
                                   off |-> c.pending_ref_pos,
                                   len |-> Len(c.pending_ref) - c.pending_ref_pos]),
                 !.c = [@ EXCEPT !.send_pending = TRUE]]
  ELSE u

\* the accepted connection with its first recv prepared, the loop about to
\* start
UringAccepted ==
  UringSubmitRecv([UringOff EXCEPT !.pc = "submit", !.running = TRUE])

\* uring_conn_close
UringConnClose(u) == [u EXCEPT !.c = [UringConnAlloc EXCEPT !.fd = 0 - 1]]

\* what the memcpy of a header past the end of wbuf can do: the process
\* dies, or the bytes land on wbuf_len behind it, which then reads as a
\* large number (here: the whole buffer)
UringUbModes == {"segv", "lenmax"}

\* uring_queue_response: header and data copied into wbuf when they fit;
\* else the header is copied (whether or not it fits) and the data kept by
\* reference; a response without header is kept by reference
UringQueueResponse(u, hdr, data, tag, ub) ==
  LET c == u.c
      total == Len(hdr) + Len(data)
      q == IF hdr = <<>>
           THEN IF data # <<>>
                THEN [u EXCEPT !.c = [@ EXCEPT !.pending_ref = Tagged(data, tag),
                                               !.pending_ref_pos = 0]]
                ELSE u
           ELSE IF Len(c.wbuf) + total <= URING_WBUF_SIZE
           THEN [u EXCEPT !.c = [@ EXCEPT !.wbuf = @ \o Tagged(hdr \o data, tag)]]
           ELSE LET full == c.wbuf \o Tagged(hdr, tag)
                    w == IF Len(full) <= URING_WBUF_SIZE THEN full
                         ELSE Take(full, URING_WBUF_SIZE)
                    p == IF Len(full) > URING_WBUF_SIZE /\ ub = "segv"
                         THEN "segv" ELSE u.pc
                IN [u EXCEPT !.pc = p,
                             !.c = [@ EXCEPT
                                      !.wbuf = w,
                                      !.pending_ref =
                                         IF data # <<>> THEN Tagged(data, tag) ELSE @,
                                      !.pending_ref_pos =
                                         IF data # <<>> THEN 0 ELSE @]]
  IN IF q.pc = "segv" THEN q ELSE UringSubmitSend(q)

\* Step 3 of uring_process_requests: the bytes rptr points to, rfmt, and
\* whether the request is a QUIT
UringLookup(c, tbl, ub) ==
  LET key == SubSeq(c.rbuf, c.rbuf_pos + 1, c.rbuf_pos + c.key_len)
      none == [status |-> "zero", data |-> <<>>, rfmt |-> 0, quit |-> FALSE]
  IN
  IF c.discarding THEN none
  ELSE IF c.action = MELIAN_ACTION_FETCH
  THEN LET f == DataFetchInline(tbl, c.table_id, c.index_id, key, ub.cmp)
           bucket == tbl.slots[f.slot].index.tab[f.idx]
       IN IF f.status = "hit"
          THEN [status |-> "hit",
                data |-> MemRead(tbl, bucket.frame_ptr, bucket.frame_len).bytes,
                rfmt |-> 1, quit |-> FALSE]
          ELSE [none EXCEPT !.status = f.status]
  ELSE IF c.action = MELIAN_ACTION_DESCRIBE_SCHEMA
  THEN [none EXCEPT !.status = "schema", !.data = SchemaJson]
  ELSE IF c.action = MELIAN_ACTION_GET_STATISTICS
  THEN [none EXCEPT !.status = "stats", !.data = StatusJson]
  ELSE IF c.action = MELIAN_ACTION_QUIT
  THEN [none EXCEPT !.status = "quit", !.data = ByeJson, !.quit = TRUE]
  ELSE none

UringOutputPending(c) ==
  \/ c.wbuf_pos < Len(c.wbuf)
  \/ c.pending_ref # <<>> /\ c.pending_ref_pos < Len(c.pending_ref)

\* Step 1 of uring_process_requests: the header H is taken out of rbuf
UringParseHeader(c, H) ==
  [c EXCEPT !.action = H[2], !.table_id = H[3], !.index_id = H[4],
            !.key_len = NtoHL(SubSeq(H, 5, 8)),
            !.rbuf_pos = @ + HeaderSize,
            !.hdr_have = HeaderSize,
            !.discarding = NtoHL(SubSeq(H, 5, 8)) > URING_MAX_KEY_LEN,
            !.key_have = 0]

\* Step 2: an oversized key is consumed as far as rbuf holds it
UringDiscard(c, avail) ==
  IF c.discarding
  THEN [c EXCEPT !.rbuf_pos = @ + Min(c.key_len - c.key_have, avail),
                 !.key_have = @ + Min(c.key_len - c.key_have, avail)]
  ELSE c

\* Step 4: the response of lookup l is queued.  History: done[i] is the
\* status of request i and whether output was pending when it was answered.
UringRespond(u, l, ovf) ==
  IF l.data # <<>>
  THEN IF l.rfmt = 0
       THEN UringQueueResponse(u, BE32(Len(l.data)), l.data, Len(u.done), ovf)
       ELSE UringQueueResponse(u, <<>>, l.data, Len(u.done), ovf)
  ELSE UringQueueResponse(u, zero_hdr, <<>>, Len(u.done), ovf)

\* Step 3, with QUIT setting ctx->quit_requested
UringAnswer(u, l, ovf) ==
  UringRespond([u EXCEPT !.quit_requested = @ \/ l.quit,
                         !.done = Append(@, [status |-> l.status,
                                             pend |-> UringOutputPending(u.c)])],
               l, ovf)

\* the end of one iteration: the key is consumed, the parse state reset
UringResetParse(u, skip) ==
  [u EXCEPT !.c = [@ EXCEPT !.rbuf_pos = @ + skip, !.hdr_have = 0,
                            !.key_have = 0, !.discarding = FALSE]]

\* the while (1) of uring_process_requests
RECURSIVE UringProcessLoop(_, _, _, _)
RECURSIVE UringProcessKey(_, _, _, _)
RECURSIVE UringProcessNext(_, _, _, _, _)
UringProcessLoop(u, tbl, ub, ovf) ==
  LET H == SubSeq(u.c.rbuf, u.c.rbuf_pos + 1, u.c.rbuf_pos + HeaderSize) IN
  IF u.c.hdr_have >= HeaderSize THEN UringProcessKey(u, tbl, ub, ovf)
  ELSE IF Len(u.c.rbuf) - u.c.rbuf_pos < HeaderSize THEN [closed |-> FALSE, u |-> u]
  ELSE IF H[1] # MELIAN_HEADER_VERSION
  THEN [closed |-> TRUE, u |-> UringConnClose(u)]
  ELSE UringProcessKey([u EXCEPT !.c = UringParseHeader(@, H)], tbl, ub, ovf)

UringProcessKey(u1, tbl, ub, ovf) ==
  LET u == [u1 EXCEPT !.c = UringDiscard(@, Len(u1.c.rbuf) - u1.c.rbuf_pos)] IN
  IF u.c.discarding /\ u.c.key_have < u.c.key_len THEN [closed |-> FALSE, u |-> u]
  ELSE IF ~u.c.discarding /\ Len(u.c.rbuf) - u.c.rbuf_pos < u.c.key_len
  THEN [closed |-> FALSE, u |-> u]
  ELSE UringProcessNext(UringAnswer(u, UringLookup(u.c, tbl, ub), ovf),
                        IF u.c.discarding THEN 0 ELSE u.c.key_len, tbl, ub, ovf)

UringProcessNext(q, skip, tbl, ub, ovf) ==
  IF q.pc = "segv" THEN [closed |-> FALSE, u |-> q]
  ELSE UringProcessLoop(UringResetParse(q, skip), tbl, ub, ovf)

\* uring_process_requests: the loop, then the compaction of rbuf
UringProcessRequests(u, tbl, ub, ovf) ==
  LET r == UringProcessLoop(u, tbl, ub, ovf) IN
  IF r.closed \/ r.u.pc = "segv" THEN r.u
  ELSE [r.u EXCEPT !.c = [@ EXCEPT !.rbuf = Drop(@, r.u.c.rbuf_pos),
                                   !.rbuf_pos = 0]]

\* uring_handle_recv for a completion that brought data
UringHandleRecv(u, data, tbl, ub, ovf) ==
  LET u1 == [u EXCEPT !.c = [@ EXCEPT !.recv_pending = FALSE,
                                      !.rbuf = @ \o data]]
      u2 == UringProcessRequests(u1, tbl, ub, ovf)
  IN IF u2.pc # "segv" /\ u2.c.fd >= 0 /\ Len(u2.c.rbuf) < URING_RBUF_SIZE
     THEN UringSubmitRecv(u2) ELSE u2

\* C30 mutant: a short send of wbuf is taken as a full one
UringWbufAfterSendAll(wbuf_pos, wbuf_len, sent) == 0

\* uring_handle_send: wbuf_pos after sent bytes left wbuf, 0 when wbuf is
\* flushed (wbuf_len is set to 0 with it)
UringWbufAfterSend(wbuf_pos, wbuf_len, sent) ==
  IF sent >= wbuf_len - wbuf_pos THEN 0 ELSE wbuf_pos + sent

\* uring_handle_send, the part of the completion that left pending_ref
UringRefAfterSend(c, sent) ==
  IF sent > 0 /\ c.pending_ref # <<>>
  THEN IF c.pending_ref_pos + sent >= Len(c.pending_ref)
       THEN [c EXCEPT !.pending_ref = <<>>, !.pending_ref_pos = 0]
       ELSE [c EXCEPT !.pending_ref_pos = @ + sent]
  ELSE c

\* uring_handle_send, the continuation
UringSendMore(u) == IF UringOutputPending(u.c) THEN UringSubmitSend(u) ELSE u

\* uring_handle_send for a completion of res >= 0 bytes
UringHandleSend(u, res) ==
  LET c == u.c
      wbuf_remain == Len(c.wbuf) - c.wbuf_pos
      pos == UringWbufAfterSend(c.wbuf_pos, Len(c.wbuf), res)
  IN
  IF wbuf_remain > 0
  THEN UringSendMore([u EXCEPT !.c = UringRefAfterSend(
                        [@ EXCEPT !.send_pending = FALSE,
                                  !.wbuf = IF pos = 0 THEN <<>> ELSE @,
                                  !.wbuf_pos = pos],
                        IF res >= wbuf_remain THEN res - wbuf_remain ELSE 0)])
  ELSE UringSendMore([u EXCEPT !.c = UringRefAfterSend(
                        [@ EXCEPT !.send_pending = FALSE], res)])

UringUnchanged ==
  /\ UNCHANGED <<conn, stream, handled, conn_free, tev>>
  /\ UNCHANGED <<midfetch, crashed, io_backend, lev, rowst>>
  /\ UNCHANGED xvars
  /\ UNCHANGED tvars
  /\ UNCHANGED <<svars, kvars, dvars>>

\* the top of while (ctx->running && !ctx->quit_requested):
\* io_uring_submit_and_wait hands every prepared entry to the kernel
UringSubmitAndWait ==
  /\ io_backend = "io_uring"
  /\ uctx.pc = "submit"
  /\ uctx.running /\ ~uctx.quit_requested
  /\ uctx' = [uctx EXCEPT !.pc = "wait", !.sq = <<>>,
                          !.fly = @ \cup { uctx.sq[i] : i \in 1..Len(uctx.sq) }]
  /\ UNCHANGED <<tosend, wire, sndq>>
  /\ UringUnchanged

\* the loop condition fails: uring_backend_run returns, prepared entries
\* stay where they are
UringLoopExit ==
  /\ io_backend = "io_uring"
  /\ uctx.pc = "submit"
  /\ ~(uctx.running /\ ~uctx.quit_requested)
  /\ uctx' = [uctx EXCEPT !.pc = "stopped", !.running = FALSE]
  /\ UNCHANGED <<tosend, wire, sndq>>
  /\ UringUnchanged

\* the kernel completes the recv: n bytes of what the client has sent, at
\* least one, at most the free space of rbuf
KernelRecv ==
  /\ io_backend = "io_uring"
  /\ \E e \in uctx.fly :
       /\ e.op = "recv"
       /\ \E n \in 1..Min(URING_RBUF_SIZE - Len(uctx.c.rbuf), Len(tosend)) :
            /\ uctx' = [uctx EXCEPT !.fly = @ \ {e},
                                    !.cq = Append(@, [op |-> "recv", res |-> n,
                                                      data |-> Take(tosend, n)])]
            /\ tosend' = Drop(tosend, n)
  /\ UNCHANGED <<wire, sndq>>
  /\ UringUnchanged

\* the kernel completes the send: the socket takes what its send buffer has
\* room for, and waits while it has none
KernelSend ==
  /\ io_backend = "io_uring"
  /\ sndq < SockBuf
  /\ \E e \in uctx.fly :
       /\ e.op = "send"
       /\ LET n == Min(e.len, SockBuf - sndq)
              from == IF e.src = "wbuf" THEN uctx.c.wbuf ELSE uctx.c.pending_ref
          IN /\ wire' = wire \o SubSeq(from, e.off + 1, e.off + n)
             /\ sndq' = sndq + n
             /\ uctx' = [uctx EXCEPT !.fly = @ \ {e},
                                     !.cq = Append(@, [op |-> "send", res |-> n,
                                                       data |-> <<>>])]
  /\ UNCHANGED tosend
  /\ UringUnchanged

\* io_uring_for_each_cqe: the handler of the oldest completion
UringHandleCqe ==
  /\ io_backend = "io_uring"
  /\ uctx.pc \in {"wait", "reap"}
  /\ uctx.cq # <<>>
  /\ LET e == Head(uctx.cq)
         u == [uctx EXCEPT !.pc = "reap", !.cq = Tail(@)]
     IN IF e.op = "recv"
        THEN \E ub \in UbModes, ovf \in UringUbModes :
               uctx' = UringHandleRecv(u, e.data, table, ub, ovf)
        ELSE uctx' = UringHandleSend(u, e.res)
  /\ UNCHANGED <<tosend, wire, sndq>>
  /\ UringUnchanged

\* no completion is left: io_uring_cq_advance, back to the loop condition
UringLoopAgain ==
  /\ io_backend = "io_uring"
  /\ uctx.pc = "reap"
  /\ uctx.cq = <<>>
  /\ uctx' = [uctx EXCEPT !.pc = "submit"]
  /\ UNCHANGED <<tosend, wire, sndq>>
  /\ UringUnchanged

(***************************************************************************)
(* The row payload: the encoder at the end of db_*_query_into_hash and     *)
(* client_decode_row.  A field is what the driver's classification leaves  *)
(* in field_names, field_types, field_val_lens and field_vals / field_i64  *)
(* / field_f64.  Every value is a tuple: <<v>> for the int64 v, <<b>> for  *)
(* the bool b, the eight bytes of the double for a float64, the bytes of   *)
(* a byte string or decimal, <<>> for null.                                *)
(***************************************************************************)
MAX_FIELDS == 2               \* 99 in db.c, scaled down
MELIAN_VALUE_NULL == 0
MELIAN_VALUE_INT64 == 1
MELIAN_VALUE_FLOAT64 == 2
MELIAN_VALUE_BYTES == 3
MELIAN_VALUE_DECIMAL == 4
MELIAN_VALUE_BOOL == 5

FieldNames == {<<97>>, <<98, 99>>}
Int64s == {0, 258, 0 - 1, 0 - 257}
Float64s == {<<0, 0, 0, 0, 0, 0, 240, 63>>, <<1, 0, 0, 0, 0, 0, 248, 127>>}
ByteStrings == {<<>>, <<49, 0>>}
Decimals == {<<49, 46, 53>>}

Field(name, type, len, value) ==
  [name |-> name, type |-> type, len |-> len, value |-> value]

\* the fields a driver's classification produces: SQLite knows integer,
\* float, text/blob and null; PostgreSQL also bool and numeric
TypedValues(driver) ==
  { [type |-> MELIAN_VALUE_NULL, len |-> 0, value |-> <<>>] }
  \cup { [type |-> MELIAN_VALUE_INT64, len |-> 8, value |-> <<v>>] : v \in Int64s }
  \cup { [type |-> MELIAN_VALUE_FLOAT64, len |-> 8, value |-> v] : v \in Float64s }
  \cup { [type |-> MELIAN_VALUE_BYTES, len |-> Len(v), value |-> v] : v \in ByteStrings }
  \cup (IF driver = "postgresql"
        THEN { [type |-> MELIAN_VALUE_DECIMAL, len |-> Len(v), value |-> v] : v \in Decimals }
             \cup { [type |-> MELIAN_VALUE_BOOL, len |-> 1, value |-> <<v>>] : v \in {0, 1} }
        ELSE {})

Fields(driver) ==
  { Field(n, t.type, t.len, t.value) : n \in FieldNames, t \in TypedValues(driver) }

Rows(driver) == UNION { [1..n -> Fields(driver)] : n \in 0..MAX_FIELDS }

\* C28 mutant: the name length is written high byte first
write_le16_swapped(n) == << (n \div 256) % 256, n % 256 >>

write_le16(n) == << n % 256, (n \div 256) % 256 >>

write_le32(n) ==
  << n % 256, (n \div 256) % 256, (n \div 65536) % 256, (n \div 16777216) % 256 >>

\* write_le64((uint64_t)v) for an int64_t v of 32 bits' size: two's
\* complement, the high four bytes are the sign
write_le64(v) ==
  << v % 256, (v \div 256) % 256, (v \div 65536) % 256, (v \div 16777216) % 256,
     IF v < 0 THEN 255 ELSE 0, IF v < 0 THEN 255 ELSE 0,
     IF v < 0 THEN 255 ELSE 0, IF v < 0 THEN 255 ELSE 0 >>

\* the bytes the encoder writes after the value length
EncodeValue(driver, f) ==
  IF f.type = MELIAN_VALUE_INT64 THEN write_le64(f.value[1])
  ELSE IF f.type = MELIAN_VALUE_FLOAT64 THEN f.value
  ELSE IF driver = "postgresql" /\ f.type = MELIAN_VALUE_BOOL
  THEN << IF f.value[1] # 0 THEN 1 ELSE 0 >>
  ELSE IF f.len > 0 THEN f.value
  ELSE <<>>

EncodeField(driver, f) ==
  write_le16(Len(f.name)) \o f.name \o <<f.type>> \o write_le32(f.len)
  \o EncodeValue(driver, f)

RECURSIVE EncodeFields(_, _)
EncodeFields(driver, row) ==
  IF row = <<>> THEN <<>>
  ELSE EncodeField(driver, Head(row)) \o EncodeFields(driver, Tail(row))

\* row_buf: the field count and the fields
EncodeRow(driver, row) == write_le32(Len(row)) \o EncodeFields(driver, row)

\* size_t row_size
RECURSIVE RowSizeFrom(_, _)
RowSizeFrom(row, f) ==
  IF f > Len(row) THEN 4
  ELSE 2 + Len(row[f].name) + 1 + 4 + row[f].len + RowSizeFrom(row, f + 1)

RowSize(row) == RowSizeFrom(row, 1)

read_le16(buf, off) == buf[off + 1] + 256 * buf[off + 2]

read_le32(buf, off) ==
  buf[off + 1] + 256 * buf[off + 2] + 65536 * buf[off + 3] + 16777216 * buf[off + 4]

\* (int64_t)read_le64 of a value of 32 bits' size
read_le64_signed(buf, off) ==
  IF buf[off + 8] >= 128
  THEN 0 - 1 - ((255 - buf[off + 1]) + 256 * (255 - buf[off + 2])
                + 65536 * (255 - buf[off + 3]) + 16777216 * (255 - buf[off + 4]))
  ELSE read_le32(buf, off)

DecodeFail == [ok |-> FALSE, fields |-> <<>>, next |-> 0]

\* client_decode_row, one field from its type tag on
DecodeValue(p, length, off, name, type, value_len) ==
  IF off + value_len > length THEN DecodeFail
  ELSE IF type = MELIAN_VALUE_NULL
  THEN [ok |-> TRUE, fields |-> <<Field(name, type, value_len, <<>>)>>,
        next |-> off + value_len]
  ELSE IF type = MELIAN_VALUE_BOOL
  THEN [ok |-> TRUE,
        fields |-> <<Field(name, type, value_len,
                           << IF value_len # 0 THEN p[off + 1] ELSE 0 >>)>>,
        next |-> off + value_len]
  ELSE IF type = MELIAN_VALUE_INT64
  THEN IF value_len # 8 THEN DecodeFail
       ELSE [ok |-> TRUE,
             fields |-> <<Field(name, type, value_len, <<read_le64_signed(p, off)>>)>>,
             next |-> off + 8]
  ELSE IF type = MELIAN_VALUE_FLOAT64
  THEN IF value_len # 8 THEN DecodeFail
       ELSE [ok |-> TRUE,
             fields |-> <<Field(name, type, value_len, SubSeq(p, off + 1, off + 8))>>,
             next |-> off + 8]
  ELSE [ok |-> TRUE,
        fields |-> <<Field(name, type, value_len,
                           SubSeq(p, off + 1, off + value_len))>>,
        next |-> off + value_len]

\* client_decode_row, one field from its name on
DecodeName(p, length, off, name_len) ==
  IF off + name_len + 1 + 4 > length THEN DecodeFail
  ELSE DecodeValue(p, length, off + name_len + 5,
                   SubSeq(p, off + 1, off + name_len), p[off + name_len + 1],
                   read_le32(p, off + name_len + 1))

DecodeField(p, length, off) ==
  IF off + 2 > length THEN DecodeFail
  ELSE DecodeName(p, length, off + 2, read_le16(p, off))

\* the loop of client_decode_row over field_count fields
RECURSIVE DecodeFields(_, _, _, _)
RECURSIVE DecodeRest(_, _, _, _)
DecodeFields(p, length, off, n) ==
  IF n = 0 THEN [ok |-> TRUE, fields |-> <<>>, next |-> off]
  ELSE DecodeRest(p, length, DecodeField(p, length, off), n)

DecodeRest(p, length, d, n) ==
  IF ~d.ok THEN DecodeFail
  ELSE [DecodeFields(p, length, d.next, n - 1)
          EXCEPT !.fields = IF @ = <<>> THEN d.fields ELSE d.fields \o @]

\* client_decode_row: NULL, or the row with its field_count
ClientDecodeRow(payload, length) ==
  IF length < 4 THEN [ok |-> FALSE, field_count |-> 0, fields |-> <<>>]
  ELSE [ok |-> DecodeFields(payload, length, 4, read_le32(payload, 0)).ok,
        field_count |-> read_le32(payload, 0),
        fields |-> DecodeFields(payload, length, 4, read_le32(payload, 0)).fields]

RowIdle ==
  [pc |-> "idle", driver |-> "sqlite", row |-> <<>>, payload |-> <<>>,
   decoded |-> [ok |-> FALSE, field_count |-> 0, fields |-> <<>>]]

RowUnchanged ==
  /\ UNCHANGED tvars
  /\ UNCHANGED cvars
  /\ UNCHANGED <<midfetch, crashed, io_backend, lev, uctx>>
  /\ UNCHANGED xvars
  /\ UNCHANGED <<svars, kvars, dvars>>

\* the driver has classified the columns of one row: a row without fields
\* is skipped, any other is encoded into row_buf
RowEncode ==
  /\ rowst.pc = "row"
  /\ rowst' = IF rowst.row = <<>>
              THEN [rowst EXCEPT !.pc = "skipped"]
              ELSE [rowst EXCEPT !.pc = "encoded",
                                 !.payload = EncodeRow(rowst.driver, rowst.row)]
  /\ RowUnchanged

\* the client decodes the payload of the FETCH response
RowDecode ==
  /\ rowst.pc = "encoded"
  /\ rowst' = [rowst EXCEPT !.pc = "decoded",
                            !.decoded = ClientDecodeRow(rowst.payload,
                                                        Len(rowst.payload))]
  /\ RowUnchanged

(***************************************************************************)
(* next_power_of_two (util.c) on the machine's unsigned: the loop, one     *)
(* iteration per step.  unsigned has UnsignedBits bits (32 on the targets  *)
(* of the build, scaled down); power <<= 1 drops the bit shifted out.      *)
(***************************************************************************)
UnsignedBits == 4
UnsignedMod == 2 ^ UnsignedBits

\* power <<= 1
ShiftLeft1(power) == (power * 2) % UnsignedMod

NpotIdle == [pc |-> "idle", value |-> 0, start |-> 1, power |-> 1, iters |-> 0]

\* unsigned power = start
NpotCall(value, start) ==
  [pc |-> "loop", value |-> value, start |-> start, power |-> start, iters |-> 0]

\* one test of while (value > power) and what follows it: the body, or
\* return power
NpotStep ==
  /\ npot.pc = "loop"
  /\ npot' = IF npot.value > npot.power
             THEN [npot EXCEPT !.power = ShiftLeft1(@),
                               !.iters = Min(@ + 1, UnsignedBits + 1)]
             ELSE [npot EXCEPT !.pc = "returned"]
  /\ UNCHANGED tvars
  /\ UNCHANGED cvars
  /\ UNCHANGED <<midfetch, crashed>>
  /\ UNCHANGED <<svars, kvars, dvars, evars>>
  /\ UNCHANGED <<upool, mloop, econn, stats>>

(***************************************************************************)
(* The connection structs of the io_uring backend (server_uring.c): the    *)
(* free list, uring_conn_alloc and uring_conn_close, and the operations    *)
(* the kernel still holds for a struct.  A request is one unit of input,   *)
(* a response one unit of output.  An operation keeps the socket it was    *)
(* prepared for until it completes, whatever happens to the descriptor.    *)
(***************************************************************************)
UringStructs == 2             \* uring_conn_t structs calloc can hand out
MaxSockets == 2               \* connections the listener accepts
MaxQueued == 2                \* responses one struct holds unsent

NoFd == 0 - 1

\* a uring_conn_t nobody has allocated yet
UringConnNone ==
  [alloc |-> FALSE, fd |-> NoFd, next |-> 0, wbuf_len |-> 0,
   recv_pending |-> FALSE, send_pending |-> FALSE, closing |-> FALSE]

\* History: stale (a completion was handled for a struct that was on the
\* free list or served another socket than the operation's), twice (a
\* struct was pushed on the free list while on it), foreign (a request read
\* from one socket was parsed by a struct serving another).
PoolInit ==
  [conn_free |-> 0, conn_count |-> 0,
   cs |-> [c \in 1..UringStructs |-> UringConnNone],
   fly |-> <<>>, nsock |-> 0, peer |-> [s \in 1..MaxSockets |-> "none"],
   stale |-> FALSE, twice |-> FALSE, foreign |-> FALSE]

\* the struct c is reached from ctx->conn_free in at most n steps along next
RECURSIVE PoolReach(_, _, _, _)
PoolReach(p, from, c, n) ==
  IF from = 0 \/ n = 0 THEN FALSE
  ELSE from = c \/ PoolReach(p, p.cs[from].next, c, n - 1)

OnFreeList(p, c) == PoolReach(p, p.conn_free, c, UringStructs)

RemoveAt(s, i) == SubSeq(s, 1, i - 1) \o SubSeq(s, i + 1, Len(s))

\* uring_submit_recv
PoolSubmitRecv(p, c) ==
  IF p.cs[c].recv_pending \/ p.cs[c].closing THEN p
  ELSE [p EXCEPT !.fly = Append(@, [op |-> "recv", c |-> c,
                                     fd |-> p.cs[c].fd, len |-> 0]),
                 !.cs[c].recv_pending = TRUE]

\* uring_submit_send: everything queued, if anything
PoolSubmitSend(p, c) ==
  IF p.cs[c].send_pending \/ p.cs[c].closing \/ p.cs[c].wbuf_len = 0 THEN p
  ELSE [p EXCEPT !.fly = Append(@, [op |-> "send", c |-> c,
                                     fd |-> p.cs[c].fd,
                                     len |-> p.cs[c].wbuf_len]),
                 !.cs[c].send_pending = TRUE]

\* uring_conn_alloc: the head of the free list, or a struct from calloc
PoolConnAlloc(p, c, fd) ==
  [p EXCEPT !.conn_free = IF p.conn_free # 0 THEN p.cs[p.conn_free].next ELSE @,
            !.cs[c] = [UringConnNone EXCEPT !.alloc = TRUE, !.fd = fd],
            !.conn_count = @ + 1]

\* uring_conn_close: closing is set on entry and cleared with the rest of
\* the state, then the struct is pushed on the free list
PoolConnClose(p, c) ==
  IF p.cs[c].closing THEN p
  ELSE [p EXCEPT !.cs[c] = [UringConnNone EXCEPT !.alloc = TRUE,
                                                 !.next = p.conn_free],
                 !.conn_free = c,
                 !.conn_count = @ - 1,
                 !.twice = @ \/ OnFreeList(p, c)]

\* uring_queue_response for one request, then uring_submit_send
PoolQueueResponse(p, c) ==
  PoolSubmitSend([p EXCEPT !.cs[c].wbuf_len = Min(@ + 1, MaxQueued)], c)

\* uring_process_requests on what one recv brought: a request of another
\* version closes the connection, any other is answered
PoolProcessRequests(p, c, req) ==
  IF req = "badversion" THEN PoolConnClose(p, c) ELSE PoolQueueResponse(p, c)

\* uring_handle_recv for the completion of operation o with result res
PoolHandleRecv(p, o, res) ==
  LET c == o.c
      p0 == [p EXCEPT !.cs[c].recv_pending = FALSE,
                      !.stale = @ \/ OnFreeList(p, c) \/ p.cs[c].fd # o.fd]
  IN
  IF res \in {"eof", "error"} THEN PoolConnClose(p0, c)
  ELSE LET p1 == PoolProcessRequests(
                   [p0 EXCEPT !.foreign = @ \/ (p.cs[c].fd # o.fd /\ p.cs[c].fd # NoFd)],
                   c, res)
       IN IF ~p1.cs[c].closing THEN PoolSubmitRecv(p1, c) ELSE p1

\* uring_handle_send for the completion of operation o
PoolHandleSend(p, o, res) ==
  LET c == o.c
      p0 == [p EXCEPT !.cs[c].send_pending = FALSE,
                      !.stale = @ \/ OnFreeList(p, c) \/ p.cs[c].fd # o.fd]
  IN
  IF res = "error" THEN PoolConnClose(p0, c)
  ELSE PoolSubmitSend(
         [p0 EXCEPT !.cs[c].wbuf_len = IF o.len >= @ THEN 0 ELSE @ - o.len], c)

PoolUnchanged ==
  /\ UNCHANGED tvars
  /\ UNCHANGED cvars
  /\ UNCHANGED <<midfetch, crashed>>
  /\ UNCHANGED <<svars, kvars, dvars, evars>>
  /\ UNCHANGED <<npot, mloop, econn, stats>>

\* the accept completes with a new socket: uring_handle_accept
PoolAccept ==
  /\ upool.nsock < MaxSockets
  /\ \E c \in 1..UringStructs :
       /\ IF upool.conn_free # 0 THEN c = upool.conn_free
          ELSE /\ ~upool.cs[c].alloc
               /\ \A d \in 1..(c - 1) : upool.cs[d].alloc
       /\ LET s == upool.nsock + 1
              p == [upool EXCEPT !.nsock = s, !.peer[s] = "open"]
          IN upool' = PoolSubmitRecv(PoolConnAlloc(p, c, s), c)
  /\ PoolUnchanged

\* the peer of a socket closes it
PoolPeerClose ==
  /\ \E s \in 1..upool.nsock :
       /\ upool.peer[s] = "open"
       /\ upool' = [upool EXCEPT !.peer[s] = "closed"]
  /\ PoolUnchanged

\* a recv completes and the loop handles its completion: with a request if
\* the peer of the operation's socket is there to send one, with 0 if it
\* has closed, with -EBADF if the operation was prepared for descriptor -1
PoolRecvDone ==
  /\ \E i \in 1..Len(upool.fly) :
       LET o == upool.fly[i]
           p == [upool EXCEPT !.fly = RemoveAt(@, i)]
       IN /\ o.op = "recv"
          /\ \E res \in (IF o.fd = NoFd THEN {"error"}
                         ELSE IF upool.peer[o.fd] = "open"
                         THEN {"request", "badversion"}
                         ELSE {"eof"}) :
               upool' = PoolHandleRecv(p, o, res)
  /\ PoolUnchanged

\* a send completes and the loop handles its completion: all of it sent, or
\* an error (-EPIPE, -ECONNRESET, -EFAULT, -EBADF)
PoolSendDone ==
  /\ \E i \in 1..Len(upool.fly) :
       LET o == upool.fly[i]
           p == [upool EXCEPT !.fly = RemoveAt(@, i)]
       IN /\ o.op = "send"
          /\ \E res \in (IF o.fd = NoFd THEN {"error"} ELSE {"sent", "error"}) :
               upool' = PoolHandleSend(p, o, res)
  /\ PoolUnchanged

(***************************************************************************)
(* MelLoop (event_loop.c): mel_loop_run on the loop's thread and           *)
(* mel_loop_stop on any other thread.  wake is what the wake descriptor    *)
(* holds unread; ready is another descriptor with an event to report.      *)
(***************************************************************************)
MaxStops == 2                 \* mel_loop_stop calls in one behaviour
MaxEvents == 2                \* events of other descriptors in one behaviour

\* after mel_loop_init, mel_loop_run not called yet.  sp is the position
\* of the thread inside mel_loop_stop.  History: stops, events, and early
\* (a mel_loop_stop call that was made before mel_loop_run started).
MelLoopInit ==
  [pc |-> "init", running |-> FALSE, wake |-> 0, ready |-> FALSE,
   batch |-> {}, sp |-> "out", stops |-> 0, events |-> 0, early |-> FALSE]

MelUnchanged ==
  /\ UNCHANGED tvars
  /\ UNCHANGED cvars
  /\ UNCHANGED <<midfetch, crashed>>
  /\ UNCHANGED <<svars, kvars, dvars, evars>>
  /\ UNCHANGED <<npot, upool, econn, stats>>

\* mel_loop_run: loop->running = 1
MelLoopRun ==
  /\ mloop.pc = "init"
  /\ mloop' = [mloop EXCEPT !.pc = "test", !.running = TRUE]
  /\ MelUnchanged

\* while (loop->running)
MelLoopTest ==
  /\ mloop.pc = "test"
  /\ mloop' = [mloop EXCEPT !.pc = IF mloop.running THEN "wait" ELSE "returned"]
  /\ MelUnchanged

\* run_epoll / run_uring / run_kqueue: the wait returns the descriptors
\* that have something to report
MelLoopWait ==
  /\ mloop.pc = "wait"
  /\ mloop.wake > 0 \/ mloop.ready
  /\ mloop' = [mloop EXCEPT !.pc = "dispatch",
                            !.batch = (IF mloop.wake > 0 THEN {"wake"} ELSE {})
                                      \cup (IF mloop.ready THEN {"fd"} ELSE {}),
                            !.ready = FALSE]
  /\ MelUnchanged

\* handle_slot_event for a descriptor of the server: its callback runs
MelLoopCallback ==
  /\ mloop.pc = "dispatch"
  /\ "fd" \in mloop.batch
  /\ mloop' = [mloop EXCEPT !.batch = @ \ {"fd"},
                            !.pc = IF mloop.batch = {"fd"} THEN "test" ELSE @]
  /\ MelUnchanged

\* handle_slot_event for the wake descriptor: loop_on_wake reads until
\* nothing is left
loop_on_wake ==
  /\ mloop.pc = "dispatch"
  /\ "wake" \in mloop.batch
  /\ mloop' = [mloop EXCEPT !.wake = 0,
                            !.batch = @ \ {"wake"},
                            !.pc = IF mloop.batch = {"wake"} THEN "test" ELSE @]
  /\ MelUnchanged

\* mel_loop_stop on another thread: loop->running = 0 ...
MelLoopStop ==
  /\ mloop.sp = "out"
  /\ mloop.stops < MaxStops
  /\ mloop.pc # "returned"
  /\ mloop' = [mloop EXCEPT !.sp = "write", !.running = FALSE,
                            !.stops = @ + 1,
                            !.early = @ \/ mloop.pc = "init"]
  /\ MelUnchanged

\* ... and then write(loop->wake_fd, &one, sizeof(one))
MelLoopStopWrite ==
  /\ mloop.sp = "write"
  /\ mloop' = [mloop EXCEPT !.sp = "out", !.wake = @ + 1]
  /\ MelUnchanged

\* a descriptor registered with the loop becomes readable or writable
MelFdReady ==
  /\ ~mloop.ready
  /\ mloop.events < MaxEvents
  /\ mloop.pc # "returned"
  /\ mloop' = [mloop EXCEPT !.ready = TRUE, !.events = @ + 1]
  /\ MelUnchanged

(***************************************************************************)
(* EventConn of the io_uring event loop (event_loop_uring.c): its          *)
(* reference count, the reads and writes submitted for it, and             *)
(* event_loop_conn_free.  Reading or writing the struct after free() is    *)
(* undefined: the process crashes or goes on with what the memory held.    *)
(***************************************************************************)
MaxSegs == 2                  \* OutSeg segments queued on one connection
EventConns == 2               \* connections of the loop

\* event_loop_conn_build: calloc, so refcount 0 and nothing in flight.
\* mem tells whether the struct is allocated; ops are the ReadOp and
\* WriteOp submitted and not yet completed; owner tells whether the caller
\* still holds the connection.  History: frees (calls of free(conn)),
\* frees_inflight (a free(conn) made with an operation outstanding), uaf
\* (the struct was used after free), enabled.
EventConnBuild ==
  [mem |-> "live", closing |-> FALSE, notified |-> FALSE, refcount |-> 0,
   read_inflight |-> FALSE, write_inflight |-> FALSE, out |-> 0,
   ops |-> {}, owner |-> TRUE, enabled |-> FALSE,
   frees |-> 0, frees_inflight |-> FALSE, uaf |-> FALSE, crashed |-> FALSE]

EventUbModes == {"crash", "stale"}

\* a function dereferences conn
ConnTouch(e, ub) ==
  IF e.mem = "freed"
  THEN [e EXCEPT !.uaf = TRUE, !.crashed = @ \/ ub = "crash"]
  ELSE e

conn_ref(e) == [e EXCEPT !.refcount = @ + 1]

\* conn_unref: the count is decremented unless it is 0 already
conn_unref(e) ==
  LET r == IF e.refcount > 0 THEN e.refcount - 1 ELSE 0 IN
  IF e.closing /\ r = 0
  THEN [e EXCEPT !.refcount = r, !.out = 0, !.mem = "freed",
                 !.frees = Min(@ + 1, 2),
                 !.frees_inflight = @ \/ e.ops # {}]
  ELSE [e EXCEPT !.refcount = r]

submit_read(e) ==
  IF e.closing \/ e.read_inflight THEN e
  ELSE conn_ref([e EXCEPT !.ops = @ \cup {"read"}, !.read_inflight = TRUE])

submit_write(e) ==
  IF e.closing \/ e.write_inflight \/ e.out = 0 THEN e
  ELSE conn_ref([e EXCEPT !.ops = @ \cup {"write"}, !.write_inflight = TRUE])

event_loop_conn_free(e) ==
  conn_unref([e EXCEPT !.closing = TRUE, !.notified = TRUE, !.owner = FALSE])

event_loop_conn_out_add(e) ==
  IF e.closing THEN e
  ELSE submit_write([e EXCEPT !.out = Min(@ + 1, MaxSegs)])

\* what a callback of the server does with the connection it is given
EventCallbacks == {"nothing", "out_add", "free"}

EventCallback(e, cb) ==
  IF ~e.owner \/ cb = "nothing" THEN e
  ELSE IF cb = "free" THEN event_loop_conn_free(e)
  ELSE event_loop_conn_out_add(e)

\* event_loop_run, case OP_READ
EventReadDone(e, res, cb, ub) ==
  LET e0 == ConnTouch([e EXCEPT !.ops = @ \ {"read"}], ub)
      e1 == [e0 EXCEPT !.read_inflight = FALSE]
  IN
  IF e0.crashed THEN e0
  ELSE IF res = "eof"
  THEN LET e2 == IF ~e1.notified
                 THEN [EventCallback(e1, cb) EXCEPT !.notified = TRUE]
                 ELSE e1
           e3 == ConnTouch(e2, ub)
       IN IF e3.crashed THEN e3
          ELSE conn_unref([e3 EXCEPT !.closing = TRUE])
  ELSE LET e2 == ConnTouch(EventCallback(e1, cb), ub)
       IN IF e2.crashed THEN e2 ELSE conn_unref(submit_read(e2))

\* event_loop_run, case OP_WRITE
EventWriteDone(e, res, cb, ub) ==
  LET e0 == ConnTouch([e EXCEPT !.ops = @ \ {"write"}], ub)
      e1 == [e0 EXCEPT !.write_inflight = FALSE]
  IN
  IF e0.crashed THEN e0
  ELSE IF res = "error"
  THEN LET e2 == IF ~e1.notified
                 THEN [EventCallback(e1, cb) EXCEPT !.notified = TRUE]
                 ELSE e1
           e3 == ConnTouch(e2, ub)
       IN IF e3.crashed THEN e3
          ELSE conn_unref([e3 EXCEPT !.closing = TRUE])
  ELSE conn_unref(submit_write([e1 EXCEPT !.out = 0]))

EventUnchanged ==
  /\ UNCHANGED tvars
  /\ UNCHANGED cvars
  /\ UNCHANGED <<midfetch, crashed>>
  /\ UNCHANGED <<svars, kvars, dvars, evars>>
  /\ UNCHANGED <<npot, upool, mloop, stats>>

\* the accept callback: event_loop_conn_enable
EventConnEnable ==
  /\ \E c \in 1..EventConns :
       /\ econn[c].owner /\ ~econn[c].enabled /\ ~econn[c].crashed
       /\ econn' = [econn EXCEPT
                      ![c] = submit_write(submit_read([@ EXCEPT !.enabled = TRUE]))]
  /\ EventUnchanged

\* the server queues output outside the connection's callbacks
EventConnOutAdd ==
  /\ \E c \in 1..EventConns :
       /\ econn[c].owner /\ ~econn[c].crashed
       /\ econn[c].out < MaxSegs
       /\ econn' = [econn EXCEPT ![c] = event_loop_conn_out_add(@)]
  /\ EventUnchanged

\* the server frees the connection outside the connection's callbacks
EventConnFree ==
  /\ \E c \in 1..EventConns :
       /\ econn[c].owner /\ ~econn[c].crashed
       /\ econn' = [econn EXCEPT ![c] = event_loop_conn_free(@)]
  /\ EventUnchanged

\* the completion of a read is handled
EventLoopRead ==
  /\ \A c \in 1..EventConns : ~econn[c].crashed
  /\ \E c \in 1..EventConns :
       /\ "read" \in econn[c].ops
       /\ \E res \in {"data", "eof"}, cb \in EventCallbacks, ub \in EventUbModes :
            econn' = [econn EXCEPT ![c] = EventReadDone(@, res, cb, ub)]
  /\ EventUnchanged

\* the completion of a write is handled
EventLoopWrite ==
  /\ \A c \in 1..EventConns : ~econn[c].crashed
  /\ \E c \in 1..EventConns :
       /\ "write" \in econn[c].ops
       /\ \E res \in {"sent", "error"}, cb \in EventCallbacks, ub \in EventUbModes :
            econn' = [econn EXCEPT ![c] = EventWriteDone(@, res, cb, ub)]
  /\ EventUnchanged

(***************************************************************************)
(* GET_STATISTICS.  status_json builds the document in status->json.jbuf,  *)
(* the one buffer of the server's Status; on_read hands queue_response a   *)
(* pointer into it.  stats holds that buffer, the clock the document       *)
(* reports, and the connections with their sockets.  History: doc, the     *)
(* document built for each connection's request.                           *)
(***************************************************************************)
StatConns == 2       \* connections sending GET_STATISTICS
StartUptime == 9     \* seconds the server has run when the model starts
MaxUptime == 10      \* seconds after which the clock of the model stops
JbufLen == 5         \* sizeof(status->json.jbuf), scaled down

\* json_dumps of an unsigned number: its decimal digits
RECURSIVE Digits(_)
Digits(n) == IF n < 10 THEN <<48 + n>> ELSE Digits(n \div 10) \o <<48 + (n % 10)>>

\* json_dumps(root): the document, here an object around the uptime
StatusDump(uptime) == <<123>> \o Digits(uptime) \o <<125>>

StatusBuild == [jbuf |-> [i \in 1..JbufLen |-> 0], jlen |-> 0]

\* status_json: jlen = 0 and jbuf[0] = 0 first; when the document cannot be
\* built that is all, otherwise the dump, cut to what jbuf holds, is copied
\* over the start of jbuf and terminated
status_json(status, uptime, ok) ==
  LET dump == StatusDump(uptime)
      dump_len == Min(Len(dump), JbufLen - 1)
  IN IF ~ok
     THEN [jbuf |-> <<0>> \o Drop(status.jbuf, 1), jlen |-> 0]
     ELSE [jbuf |-> Take(dump, dump_len) \o <<0>> \o Drop(status.jbuf, dump_len + 1),
           jlen |-> dump_len]

\* the Status as status_build leaves it, with n connections accepted
StatsWith(n) ==
  [status |-> StatusBuild, uptime |-> StartUptime,
   cs |-> [c \in 1..n |-> ConnAccepted],
   wire |-> [c \in 1..n |-> <<>>],
   sndq |-> [c \in 1..n |-> 0],
   asked |-> [c \in 1..n |-> FALSE],
   doc |-> [c \in 1..n |-> <<>>]]

StatsInit == StatsWith(StatConns)

\* connection c with what its handlers read and write
StatMachine(s, c) ==
  [c |-> s.cs[c], wire |-> s.wire[c], sndq |-> s.sndq[c], handled |-> <<>>,
   free |-> <<>>, tev |-> 0, tbl |-> [jbuf |-> s.status.jbuf],
   ub |-> [cmp |-> "fault", wr |-> "efault"], crashed |-> "no"]

StatCommit(s, c, m) ==
  [s EXCEPT !.cs[c] = m.c, !.wire[c] = m.wire, !.sndq[c] = m.sndq]

StatUnchanged ==
  /\ UNCHANGED <<npot, upool, mloop, econn>>
  /\ UNCHANGED <<svars, kvars, dvars, evars>>
  /\ UNCHANGED <<midfetch, crashed>>
  /\ UNCHANGED tvars
  /\ UNCHANGED cvars

\* time(0) moves on
StatTick ==
  /\ stats.uptime < MaxUptime
  /\ stats' = [stats EXCEPT !.uptime = @ + 1]
  /\ StatUnchanged

\* on_read of a GET_STATISTICS request of connection c, its first:
\* status_json, then the response is queued with rptr = jbuf, rlen = jlen
StatOnRead ==
  \E c \in 1..StatConns, ok \in BOOLEAN :
    /\ ~stats.asked[c]
    /\ stats.cs[c].fd >= 0
    /\ LET status == status_json(stats.status, stats.uptime, ok)
           s1 == [stats EXCEPT !.status = status, !.asked[c] = TRUE,
                               !.doc[c] = Take(status.jbuf, status.jlen)]
           m == QueueResponse(StatMachine(s1, c), BE32(status.jlen),
                              ObjPtr(StatusObj), status.jlen, c)
       IN stats' = StatCommit(s1, c, m)
    /\ StatUnchanged

\* the write event of connection c fires: on_write
StatOnWrite ==
  \E c \in 1..StatConns :
    /\ stats.cs[c].fd >= 0
    /\ stats.cs[c].wev
    /\ stats.sndq[c] < SockBuf
    /\ stats' = StatCommit(stats, c, OnWriteConn(StatMachine(stats, c)))
    /\ StatUnchanged

\* the client of connection c takes bytes out of the socket
StatClientRecv ==
  \E c \in 1..StatConns :
    /\ stats.sndq[c] > 0
    /\ \E k \in {1, stats.sndq[c]} : stats' = [stats EXCEPT !.sndq[c] = @ - k]
    /\ StatUnchanged

\* what every other specification starts with: no EventConn built, no
\* connection that asks for statistics
InitExtra ==
  /\ npot = NpotIdle
  /\ upool = PoolInit
  /\ mloop = MelLoopInit
  /\ econn = <<>>
  /\ stats = StatsWith(0)

InitLib ==
  /\ sarena = ArenaBuild(LibArenaId, ArenaInitialCapacity)
  /\ shash = NullHash
  /\ sphase = "build"
  /\ stored = <<>>
  /\ inserted = <<>>
  /\ sres = Res("arena_build", <<>>, <<>>, 0, FALSE, NoGet)
  /\ sresets = 0

InitRest ==
  /\ InitLib
  /\ io_backend = "libevent"
  /\ lev = LevRun
  /\ uctx = UringOff
  /\ rowst = RowIdle
  /\ InitCron
  /\ ddrv = DrvIdle
  /\ dhist = NoHist
  /\ rpc = "idle"
  /\ rpos = 0
  /\ rsize = 0
  /\ rrows = 0
  /\ rfail = FALSE
  /\ db_open = FALSE
  /\ cswrites = 0
  /\ midfetch = FALSE
  /\ conn = ConnAccepted
  /\ nrefresh = 0
  /\ wire = <<>>
  /\ handled = <<>>
  /\ sndq = 0
  /\ conn_free = <<>>
  /\ tev = 0
  /\ crashed = "no"

InitCommon ==
  /\ InitRest
  /\ InitExtra

\* the connection engine over a loaded table that is not being refreshed
ConnKinds == {FetchReq(<<2>>), FetchReq(<<3>>), DescribeReq, OversizedReq,
              BadVersionReq}

InitConn ==
  /\ dtabs = DataBuild(<<0>>)
  /\ table = LoadedTable
  /\ loaded = [p \in 0..1 |-> IF p = 1
                              THEN {[key |-> <<1>>, buf |-> <<7>>],
                                    [key |-> <<2>>, buf |-> <<9>>]}
                              ELSE {}]
  /\ stream \in StreamsOf(ConnKinds)
  /\ tosend = stream
  /\ InitCommon

NextConn == OnRead \/ OnWrite \/ ClientRecv

SpecConn == InitConn /\ [][NextConn]_vars

\* the connection engine fed requests it rejects, an oversized key or a
\* version it does not speak, after requests it answers
RejectKinds == {FetchReq(<<2>>), DescribeReq, OversizedReq, BadVersionReq}

InitReject ==
  /\ dtabs = DataBuild(<<0>>)
  /\ table = LoadedTable
  /\ loaded = [p \in 0..1 |-> IF p = 1
                              THEN {[key |-> <<1>>, buf |-> <<7>>],
                                    [key |-> <<2>>, buf |-> <<9>>]}
                              ELSE {}]
  /\ stream \in StreamsOf(RejectKinds)
  /\ tosend = stream
  /\ InitCommon

SpecReject == InitReject /\ [][NextConn]_vars

\* the connection engine fed FETCHes that find no bucket
MissKinds == {FetchReq(<<3>>), FetchBadTableReq, FetchBadIndexReq, DescribeReq}

InitMiss ==
  /\ dtabs = DataBuild(<<0>>)
  /\ table = LoadedTable
  /\ loaded = [p \in 0..1 |-> IF p = 1
                              THEN {[key |-> <<1>>, buf |-> <<7>>],
                                    [key |-> <<2>>, buf |-> <<9>>]}
                              ELSE {}]
  /\ stream \in StreamsOf(MissKinds)
  /\ tosend = stream
  /\ InitCommon

SpecMiss == InitMiss /\ [][NextConn]_vars

\* either backend serving one connection whose client may send QUIT, with
\* the listener and the QUIT timer of the libevent backend
QuitReq ==
  Request(MELIAN_HEADER_VERSION, MELIAN_ACTION_QUIT, 0, 0, 0, <<>>)

ServeKinds == {DescribeReq, QuitReq}

\* what the client sends: one request, or two back to back
ServeStreams ==
  { Concat(reqs) : reqs \in [1..1 -> ServeKinds] \cup [1..2 -> ServeKinds] }

InitServe ==
  /\ dtabs = DataBuild(<<0>>)
  /\ table = LoadedTable
  /\ loaded = [p \in 0..1 |-> IF p = 1
                              THEN {[key |-> <<1>>, buf |-> <<7>>],
                                    [key |-> <<2>>, buf |-> <<9>>]}
                              ELSE {}]
  /\ stream \in ServeStreams
  /\ tosend = stream
  /\ io_backend \in {"libevent", "io_uring"}
  /\ lev = LevRun
  /\ uctx = IF io_backend = "io_uring" THEN UringAccepted ELSE UringOff
  /\ rowst = RowIdle
  /\ InitExtra
  /\ InitLib
  /\ InitCron
  /\ ddrv = DrvIdle
  /\ dhist = NoHist
  /\ rpc = "idle" /\ rpos = 0 /\ rsize = 0 /\ rrows = 0 /\ rfail = FALSE
  /\ db_open = FALSE /\ cswrites = 0 /\ midfetch = FALSE
  /\ conn = ConnAccepted /\ nrefresh = 0 /\ wire = <<>> /\ handled = <<>>
  /\ sndq = 0 /\ conn_free = <<>> /\ tev = 0 /\ crashed = "no"

NextServe ==
  \/ OnRead \/ OnWrite \/ ClientRecv \/ OnAccept \/ OnQuit
  \/ UringSubmitAndWait \/ UringLoopExit \/ KernelRecv \/ KernelSend
  \/ UringHandleCqe \/ UringLoopAgain

SpecServe == InitServe /\ [][NextServe]_vars

\* the rows a driver hands to the encoder, each encoded and then decoded
InitRow ==
  /\ \E driver \in {"sqlite", "postgresql"} : \E row \in Rows(driver) :
       rowst = [RowIdle EXCEPT !.pc = "row", !.driver = driver, !.row = row]
  /\ dtabs = DataBuild(<<0>>)
  /\ table = TableBuild
  /\ loaded = [p \in 0..1 |-> {}]
  /\ stream = <<>>
  /\ tosend = <<>>
  /\ InitLib
  /\ InitCron
  /\ ddrv = DrvIdle
  /\ dhist = NoHist
  /\ rpc = "idle" /\ rpos = 0 /\ rsize = 0 /\ rrows = 0 /\ rfail = FALSE
  /\ db_open = FALSE /\ cswrites = 0 /\ midfetch = FALSE
  /\ conn = ConnAccepted /\ nrefresh = 0 /\ wire = <<>> /\ handled = <<>>
  /\ sndq = 0 /\ conn_free = <<>> /\ tev = 0 /\ crashed = "no"
  /\ io_backend = "libevent" /\ lev = LevRun /\ uctx = UringOff
  /\ InitExtra

NextRow == RowEncode \/ RowDecode

SpecRow == InitRow /\ [][NextRow]_vars

\* the refresh thread next to an event loop that fetches
InitRefresh ==
  /\ dtabs = DataBuild(<<0>>)
  /\ table = TableBuild
  /\ loaded = [p \in 0..1 |-> {}]
  /\ stream = <<>>
  /\ tosend = <<>>
  /\ InitCommon

NextRefresh ==
  \/ RefreshStart \/ RefreshReset \/ RefreshCount \/ RefreshBuild
  \/ RefreshQueryBegin \/ RefreshRow \/ RefreshRowsEnd \/ RefreshStats
  \/ RefreshPublish
  \/ Fetch

SpecRefresh == InitRefresh /\ [][NextRefresh]_vars

\* refreshes whose SELECT yields more rows than the COUNT before it reported
NextMore ==
  \/ RefreshStart \/ RefreshReset \/ RefreshCount \/ RefreshBuild
  \/ RefreshQueryBegin \/ RefreshRowMore \/ RefreshRowsEnd \/ RefreshStats
  \/ RefreshPublish

SpecMore == InitRefresh /\ [][NextMore]_vars

\* next_power_of_two called with every value and every start >= 1 of the
\* unsigned range; the thread that called it keeps running
InitPow ==
  /\ \E value \in 0..(UnsignedMod - 1) : \E start \in 1..(UnsignedMod - 1) :
       npot = NpotCall(value, start)
  /\ dtabs = DataBuild(<<0>>)
  /\ table = TableBuild
  /\ loaded = [p \in 0..1 |-> {}]
  /\ stream = <<>>
  /\ tosend = <<>>
  /\ InitRest
  /\ upool = PoolInit
  /\ mloop = MelLoopInit
  /\ econn = <<>>
  /\ stats = StatsWith(0)

NextPow == NpotStep

SpecPow == InitPow /\ [][NextPow]_vars /\ WF_vars(NextPow)

\* the io_uring backend accepting connections into its pool of structs
InitPool ==
  /\ upool = PoolInit
  /\ npot = NpotIdle
  /\ mloop = MelLoopInit
  /\ econn = <<>>
  /\ stats = StatsWith(0)
  /\ dtabs = DataBuild(<<0>>)
  /\ table = TableBuild
  /\ loaded = [p \in 0..1 |-> {}]
  /\ stream = <<>>
  /\ tosend = <<>>
  /\ InitRest

NextPool == PoolAccept \/ PoolPeerClose \/ PoolRecvDone \/ PoolSendDone

SpecPool == InitPool /\ [][NextPool]_vars

\* mel_loop_run on its thread, which keeps running, and mel_loop_stop on
\* another, which finishes a call it has begun
NextLoopThread ==
  MelLoopRun \/ MelLoopTest \/ MelLoopWait \/ MelLoopCallback \/ loop_on_wake

NextLoop == NextLoopThread \/ MelLoopStop \/ MelLoopStopWrite \/ MelFdReady

SpecLoop ==
  /\ InitRefresh
  /\ [][NextLoop]_vars
  /\ WF_vars(NextLoopThread)
  /\ WF_vars(MelLoopStopWrite)

\* GET_STATISTICS requests of several connections while the clock runs
NextStat == StatTick \/ StatOnRead \/ StatOnWrite \/ StatClientRecv

InitStat ==
  /\ stats = StatsInit
  /\ npot = NpotIdle
  /\ upool = PoolInit
  /\ mloop = MelLoopInit
  /\ econn = <<>>
  /\ dtabs = DataBuild(<<0>>)
  /\ table = TableBuild
  /\ loaded = [p \in 0..1 |-> {}]
  /\ stream = <<>>
  /\ tosend = <<>>
  /\ InitRest

SpecStat == InitStat /\ [][NextStat]_vars

\* the EventConns from event_loop_conn_build on
NextEvent ==
  \/ EventConnEnable \/ EventConnOutAdd \/ EventConnFree
  \/ EventLoopRead \/ EventLoopWrite

InitEvent ==
  /\ econn = [c \in 1..EventConns |-> EventConnBuild]
  /\ npot = NpotIdle
  /\ upool = PoolInit
  /\ mloop = MelLoopInit
  /\ stats = StatsWith(0)
  /\ dtabs = DataBuild(<<0>>)
  /\ table = TableBuild
  /\ loaded = [p \in 0..1 |-> {}]
  /\ stream = <<>>
  /\ tosend = <<>>
  /\ InitRest

SpecEvent == InitEvent /\ [][NextEvent]_vars

\* the arena on its own: stores and resets
NextArena == LibStore \/ LibStoreFramed \/ LibReset

SpecArena == InitRefresh /\ [][NextArena]_vars

\* a hash over an arena: build, load, finalize, look up
NextHash ==
  \/ LibHashBuild \/ LibStoreFramed \/ LibHashInsert \/ LibFinalize
  \/ LibHashGet

SpecHash == InitRefresh /\ [][NextHash]_vars

(***************************************************************************)
(* Properties of the refresh                                               *)
(***************************************************************************)
PublishedSlot == table.slots[table.current_slot]

OccupiedBuckets(hash) ==
  { hash.tab[i] : i \in { j \in DOMAIN hash.tab : hash.tab[j].key_len # 0 } }

\* the 4-byte length and the payload, as arena_store_framed lays them out
Frame(buf) == BE32(Len(buf)) \o buf

\* C1: once a refresh has completed, current_slot names the slot it rebuilt
\* and a fetch is answered from the rows of that refresh only: a key the
\* refresh loaded is a hit whose frame pointer reads as the frame of a row
\* of that refresh with that key, any other key is a miss.
C1_FetchSeesLatestRefresh ==
  rpc = "done" =>
    /\ table.current_slot = rpos
    /\ \A key \in FetchKeys, ub \in UbModes :
         LET f == DataFetchInline(table, TableId, 0, key, ub.cmp)
             bucket == PublishedSlot.index.tab[f.idx]
             mem == MemRead(table, bucket.frame_ptr, bucket.frame_len)
             rows == { r \in loaded[rpos] : r.key = key }
         IN IF rows = {}
            THEN f.status = "miss"
            ELSE /\ f.status = "hit"
                 /\ mem.ok
                 /\ \E r \in rows : mem.bytes = Frame(r.buf)

\* C2: a refresh that met a hard error (no connection, COUNT or SELECT
\* failing, hash allocation failing, oversize column name) does not publish:
\* its store to current_slot leaves current_slot as it was.
C2_ErrorDoesNotPublish ==
  [][(rpc = "publish" /\ rfail) => table'.current_slot = table.current_slot]_vars

\* C3: in the slot current_slot names, every occupied bucket has been
\* finalized: key_ptr and frame_ptr are addresses inside the slot's arena,
\* not arena indices.
C3_PublishedHashFinalized ==
  \A b \in OccupiedBuckets(PublishedSlot.index) :
    /\ PtrInArena(b.key_ptr, PublishedSlot.arena, b.key_len)
    /\ PtrInArena(b.frame_ptr, PublishedSlot.arena, b.frame_len)

\* C5: a refresh touches only the slot 1 - current_slot, with current_slot
\* as read at its start: no step changes the slot current_slot names, the
\* other slot is rebuilt while current_slot stays put, current_slot changes
\* only in the last step of the refresh, to the rebuilt slot, and that is
\* the only store to it.
C5_RefreshWritesInactiveSlotOnly ==
  [][/\ table'.slots[table.current_slot] = table.slots[table.current_slot]
     /\ rpc \in Building => rpos = 1 - table.current_slot
     /\ table'.current_slot # table.current_slot =>
          /\ rpc = "publish"
          /\ rpc' = "done"
          /\ table'.current_slot = rpos
     /\ rpc' = "done" => cswrites' = 1
     /\ rpc' \in Building => cswrites' = 0]_vars

\* C5 witness: a FETCH ran while the second refresh was rebuilding its
\* slot; that refresh has loaded a row next to the published rows of the
\* first one and is about to publish
C5_Witness ==
  /\ rpc = "publish"
  /\ nrefresh = 2
  /\ midfetch
  /\ loaded[rpos] # {}
  /\ loaded[1 - rpos] # {}
  /\ table.current_slot = 1 - rpos

(***************************************************************************)
(* Properties of the connection engine                                     *)
(***************************************************************************)
RECURSIVE BytesTagged(_, _)
BytesTagged(w, i) ==
  IF w = <<>> THEN <<>>
  ELSE IF Head(w).r = i THEN <<Head(w).b>> \o BytesTagged(Tail(w), i)
  ELSE BytesTagged(Tail(w), i)

\* the bytes of the wire that answer request i
WireOf(i) == BytesTagged(wire, i)

IsPrefix(s, t) == Len(s) <= Len(t) /\ s = Take(t, Len(s))

Drained == conn.fd >= 0 /\ ~OutputPending(conn) /\ crashed = "no"

\* C4: what is sent for a FETCH hit is the frame as it was at lookup: the
\* bytes on the wire that answer a hit are, at every moment, the first bytes
\* of the frame the bucket designated when it was looked up.
C4_SentBytesAreTheFrame ==
  \A i \in 1..Len(handled) :
    handled[i].status = "hit" => IsPrefix(WireOf(i), handled[i].frame)

\* C6: responses appear on the wire in request order: no byte of the
\* response to a request comes before a byte of the response to an earlier
\* request.
C6_ResponsesInRequestOrder ==
  \A i, j \in 1..Len(wire) : i < j => wire[i].r <= wire[j].r

\* C7: every fully parsed version-0x11 request gets exactly one response
\* frame: once the connection has nothing left to write, the bytes on the
\* wire for each request are as many as its response has, and (for a
\* response that is not a stored frame) begin with the 4-byte big-endian
\* length of the rest.
C7_OneFramePerRequest ==
  Drained =>
    \A i \in 1..Len(handled) :
      ~handled[i].rejected =>
        /\ Len(WireOf(i)) = handled[i].resp_len
        /\ handled[i].status # "hit" =>
             Take(WireOf(i), 4) = BE32(handled[i].resp_len - 4)

\* C8: at most one response is in flight: no request header is parsed
\* while output of an earlier response is still waiting to be written.
C8_ParseOnlyWhenDrained ==
  \A i \in 1..Len(handled) : ~handled[i].hpend

\* C9: a request whose key_length exceeds the maximum is never dispatched;
\* exactly key_length bytes after its header are consumed, however the
\* reads split them; it gets the zero-length response and nothing else; the
\* connection stays open; the next request is parsed at the first byte
\* after the discarded key.
C9_OversizedKeyDiscarded ==
  \A i \in 1..Len(handled) :
    LET e == handled[i]
        next == e.start + HeaderSize + e.key_len
    IN (e.hdr[1] = MELIAN_HEADER_VERSION
        /\ NtoHL(SubSeq(e.hdr, 5, 8)) > MELIAN_MAX_KEY_LEN) =>
         /\ e.hdr = SubSeq(stream, e.start + 1, e.start + HeaderSize)
         /\ e.discarded
         /\ e.status = "none"
         /\ e.key_len = NtoHL(SubSeq(e.hdr, 5, 8))
         /\ e.key_have = e.key_len
         /\ e.zero
         /\ IsPrefix(WireOf(i), <<0, 0, 0, 0>>)
         /\ Drained => WireOf(i) = <<0, 0, 0, 0>>
         /\ e.fd_before >= 0
         /\ e.fd_after >= 0
         /\ i < Len(handled) =>
              /\ handled[i + 1].start = next
              /\ handled[i + 1].hdr = SubSeq(stream, next + 1, next + HeaderSize)
         /\ (i = Len(handled) /\ conn.hdr_have = HeaderSize) =>
              /\ conn.hstart = next
              /\ conn.hdr = SubSeq(stream, next + 1, next + HeaderSize)

\* C9 witness: an oversized key was consumed over several reads and
\* answered with the zero-length response, and the request after it was
\* parsed and answered with the schema
C9_Witness ==
  /\ Len(handled) = 2
  /\ handled[1].discarded
  /\ handled[1].split
  /\ WireOf(1) = <<0, 0, 0, 0>>
  /\ handled[2].status = "schema"
  /\ WireOf(2) = BE32(Len(SchemaJson)) \o SchemaJson

\* C10: a header whose version is not 0x11 closes the connection: it gets
\* no response, it is the last thing parsed, and nothing is read or written
\* on the connection afterwards.
C10_BadVersionCloses ==
  \A i \in 1..Len(handled) :
    handled[i].hdr[1] # MELIAN_HEADER_VERSION =>
      /\ handled[i].rejected
      /\ handled[i].hdr = SubSeq(stream, handled[i].start + 1,
                                 handled[i].start + HeaderSize)
      /\ i = Len(handled)
      /\ WireOf(i) = <<>>
      /\ conn.fd < 0
      /\ ~conn.rev /\ ~conn.wev
      /\ conn.hdr_have = 0
      /\ ~ENABLED OnRead
      /\ ~ENABLED OnWrite

\* C10 witness: the first header of the stream had a bad version, the
\* server had read it together with a whole request that follows it, and
\* the connection is closed with nothing on the wire
C10_Witness ==
  /\ Len(handled) = 1
  /\ handled[1].rejected
  /\ stream = BadVersionReq \o DescribeReq
  /\ tosend = <<>>
  /\ wire = <<>>
  /\ conn.fd < 0

\* the key bytes that follow the header of the i-th dispatched request
KeyOf(i) ==
  SubSeq(stream, handled[i].start + HeaderSize + 1,
         handled[i].start + HeaderSize + handled[i].key_len)

\* C11: a FETCH that finds no bucket, because the key is not in the index,
\* the table id is not configured or the index id is not below the table's
\* index count, is answered with the 4-byte zero length and nothing else,
\* and the connection stays open: the next request is parsed right after it.
C11_MissIsZeroLength ==
  \A i \in 1..Len(handled) :
    LET e == handled[i]
        next == e.start + HeaderSize + e.key_len
    IN (/\ e.hdr[1] = MELIAN_HEADER_VERSION
        /\ e.hdr[2] = MELIAN_ACTION_FETCH
        /\ NtoHL(SubSeq(e.hdr, 5, 8)) <= MELIAN_MAX_KEY_LEN
        /\ \/ e.hdr[3] # TableId
           \/ e.hdr[4] >= IndexCount
           \/ KeyOf(i) \notin { r.key : r \in loaded[table.current_slot] }) =>
         /\ e.status = "miss"
         /\ e.zero
         /\ e.resp_len = 4
         /\ IsPrefix(WireOf(i), <<0, 0, 0, 0>>)
         /\ Drained => WireOf(i) = <<0, 0, 0, 0>>
         /\ e.fd_before >= 0
         /\ e.fd_after >= 0
         /\ i < Len(handled) =>
              /\ handled[i + 1].start = next
              /\ handled[i + 1].hdr = SubSeq(stream, next + 1, next + HeaderSize)

\* C11 witness: a FETCH of an unknown index id and then a FETCH of an
\* absent key were each answered with the zero length, all of it written,
\* the connection still open
C11_Witness ==
  /\ stream = FetchBadIndexReq \o FetchReq(<<3>>)
  /\ Len(handled) = 2
  /\ handled[1].status = "miss"
  /\ handled[2].status = "miss"
  /\ Drained
  /\ WireOf(1) = <<0, 0, 0, 0>>
  /\ WireOf(2) = <<0, 0, 0, 0>>
  /\ Len(wire) = 8

\* the run in which the whole stream s arrives in one read on a freshly
\* accepted connection, and then the client takes what is written and the
\* write event fires until nothing is left to write
OneRead(s, ub) ==
  OnReadConn([c |-> ConnAccepted, wire |-> <<>>, sndq |-> 0, handled |-> <<>>,
              free |-> <<>>, tev |-> 0, tbl |-> table, ub |-> ub,
              crashed |-> "no"], s)

RECURSIVE Flush(_)
Flush(m) ==
  IF m.c.fd < 0 \/ ~m.c.wev \/ m.crashed # "no" THEN m
  ELSE Flush(OnWriteConn([m EXCEPT !.sndq = 0]))

Bytes(w) == [i \in 1..Len(w) |-> w[i].b]

\* C12: the response bytes depend on the request stream only, not on how
\* it is split across reads: once the whole stream has been read and
\* nothing is left to write, the bytes on the wire are those the server
\* writes when the same stream arrives in one read.
C12_SplitDoesNotChangeResponses ==
  (/\ tosend = <<>>
   /\ Len(stream) <= MELIAN_RBUF_SIZE
   /\ crashed = "no"
   /\ ~OutputPending(conn)
   /\ conn.rbuf_len = 0) =>
     \E ub \in UbModes : Bytes(wire) = Bytes(Flush(OneRead(stream, ub)).wire)

NextCron ==
  \/ InitialLoadBegin \/ InitialLoadEnd \/ ServerListenFails \/ ServerRun
  \/ OnTick \/ ServerStop
  \/ CronJoin \/ ServerDestroy \/ LoaderRead \/ LoaderCheck \/ LoaderLoadEnd

SpecCron == InitRefresh /\ [][NextCron]_vars

\* the same where the loader thread keeps running, every refresh it starts
\* ends, and pthread_join returns once the thread has exited
NextLoader == LoaderRead \/ LoaderCheck \/ LoaderLoadEnd

SpecStop ==
  /\ InitRefresh
  /\ [][NextCron]_vars
  /\ WF_vars(NextLoader)
  /\ WF_vars(CronJoin)

InitData ==
  /\ \E index_ids \in IndexLists : dtabs = DataBuild(index_ids)
  /\ table = TableBuild
  /\ loaded = [p \in 0..1 |-> {}]
  /\ stream = <<>>
  /\ tosend = <<>>
  /\ InitLib
  /\ InitCron
  /\ ddrv = DrvIdle
  /\ dhist = [NoHist EXCEPT !.schema = DataRefreshSchema(dtabs)]
  /\ rpc = "idle" /\ rpos = 0 /\ rsize = 0 /\ rrows = 0 /\ rfail = FALSE
  /\ db_open = FALSE /\ cswrites = 0 /\ midfetch = FALSE
  /\ conn = ConnAccepted /\ nrefresh = 0 /\ wire = <<>> /\ handled = <<>>
  /\ sndq = 0 /\ conn_free = <<>> /\ tev = 0 /\ crashed = "no"
  /\ io_backend = "libevent" /\ lev = LevRun /\ uctx = UringOff /\ rowst = RowIdle
  /\ InitExtra

NextData ==
  \/ ClockTick \/ CycleBegin \/ ProbeStep \/ LoadStep \/ CatalogFetch
  \/ CatalogDescribe

SpecData == InitData /\ [][NextData]_vars

(***************************************************************************)
(* Properties of the hash and the arena                                    *)
(***************************************************************************)
OccupiedIdx(hash) == { i \in DOMAIN hash.tab : hash.tab[i].key_len # 0 }
HasEmptyBucket(hash) == \E i \in DOMAIN hash.tab : hash.tab[i].key_len = 0
InsertedKeys == { inserted[i].key : i \in 1..Len(inserted) }
FirstInsertOf(key) ==
  inserted[CHOOSE i \in 1..Len(inserted) :
             /\ inserted[i].key = key
             /\ \A j \in 1..(i - 1) : inserted[j].key # key]
CmpModes == {"fault", "differ", "equal"}

\* C13: every key inserted into a hash whose load stays below 1, the empty
\* key included, is found by hash_get after hash_finalize_pointers: the
\* bucket returned holds the key's length and bytes and the frame address
\* and frame length given when the key was inserted.
C13_InsertedKeyIsFound ==
  (sphase = "final" /\ shash.used < shash.cap) =>
    \A key \in InsertedKeys, cmp \in CmpModes :
      LET g == HashGet(shash, sarena, key, cmp)
          b == shash.tab[g.idx]
          e == FirstInsertOf(key)
      IN /\ g.status = "hit"
         /\ b.key_len = Len(key)
         /\ PtrInArena(b.key_ptr, sarena, Len(key))
         /\ ArenaBytes(sarena, b.key_ptr.off, Len(key)) = key
         /\ b.frame_ptr = ArenaGetPtr(sarena, e.frame)
         /\ b.frame_len = e.frame_len

\* C14: on a finalized hash, hash_get returns a bucket only when the
\* bucket's hash, key length and key bytes are those of the key asked for;
\* for a key never inserted it returns no bucket, after probing up to the
\* first empty bucket of the probe sequence, whatever sits on the way.
C14_GetMatchesOrMisses ==
  sphase = "final" =>
    \A key \in StoreKeys, cmp \in CmpModes :
      LET g == HashGet(shash, sarena, key, cmp)
          b == shash.tab[g.idx]
          home == KeyHash(key) % shash.cap
          empty == InsertProbe(shash, home, 0)
      IN /\ g.status = "hit" =>
              /\ b.hash = KeyHash(key)
              /\ b.key_len = Len(key)
              /\ PtrInArena(b.key_ptr, sarena, Len(key))
              /\ ArenaBytes(sarena, b.key_ptr.off, Len(key)) = key
         /\ key \notin InsertedKeys => g.status # "hit"
         /\ (key \notin InsertedKeys /\ HasEmptyBucket(shash)) =>
              /\ g.status = "miss"
              /\ g.probes = ((empty - home) % shash.cap) + 1
         /\ (sres.op = "hash_get" /\ sres.key = key) =>
              /\ sres.status = g.status
              /\ sres.idx = g.idx

\* C14 witness: with key <<4>> in the hash, a get of <<5>>, which has the
\* same hash and length and other bytes, went past the bucket of <<4>> and
\* returned no bucket at the empty bucket after it
C14_Witness ==
  /\ sphase = "final"
  /\ sres.op = "hash_get"
  /\ sres.key = <<5>>
  /\ sres.status = "miss"
  /\ sres.probes = 2
  /\ InsertedKeys = {<<4>>}

\* C15: a hash_get on a hash with at least one empty bucket terminates,
\* after at most as many probes as there are occupied buckets plus one.
C15_ProbesBounded ==
  (shash.cap # 0 /\ HasEmptyBucket(shash)) =>
    /\ \A key \in StoreKeys, cmp \in CmpModes :
         LET g == HashGet(shash, sarena, key, cmp)
         IN /\ g.status # "loop"
            /\ g.probes >= 1
            /\ g.probes <= Cardinality(OccupiedIdx(shash)) + 1
    /\ sres.op = "hash_get" =>
         /\ sphase # "hung"
         /\ sres.probes <= Cardinality(OccupiedIdx(shash)) + 1

\* C15 witness: a get of a key that is not there probed the one occupied
\* bucket, of another hash, and then the empty one: occupied + 1 probes
C15_Witness ==
  /\ sres.op = "hash_get"
  /\ sres.key = <<3>>
  /\ sres.status = "miss"
  /\ Cardinality(OccupiedIdx(shash)) = 1
  /\ sres.probes = 2
  /\ InsertedKeys = {<<4>>}

\* C17: arena_store_framed returns an index at which the arena holds the
\* length of src as 4 big-endian bytes and then the bytes of src, also when
\* the store made the arena grow.
C17_StoreFramedLayout ==
  (sres.op = "store_framed" /\ sphase = "build") =>
    /\ sres.index + 4 + Len(sres.src) = sarena.used
    /\ sarena.used <= sarena.capacity
    /\ NtoHL(ArenaBytes(sarena, sres.index, 4)) = Len(sres.src)
    /\ ArenaBytes(sarena, sres.index + 4, Len(sres.src)) = sres.src

\* C17 witness: a framed store of three bytes made the arena grow and move
C17_Witness ==
  /\ sres.op = "store_framed"
  /\ sphase = "build"
  /\ sres.grew
  /\ sres.src = <<6, 7, 8>>
  /\ sres.index > 0
  /\ sarena.gen > 1

RECURSIVE SumLen(_, _)
SumLen(log, n) == IF n = 0 THEN 0 ELSE SumLen(log, n - 1) + Len(log[n].src)

\* C18: between two resets the arena is an append log: each arena_store
\* returned the total length of the stores before it, and the bytes at
\* every index returned are still the bytes stored there, whatever was
\* stored later and however the buffer grew or moved.
C18_ArenaIsAppendLog ==
  /\ \A i \in 1..Len(stored) :
       /\ stored[i].index = SumLen(stored, i - 1)
       /\ ArenaBytes(sarena, stored[i].index, Len(stored[i].src)) = stored[i].src
  /\ sarena.used = SumLen(stored, Len(stored))
  /\ sarena.used <= sarena.capacity

\* C18 witness: three stores, the last of which grew and moved the buffer
C18_Witness ==
  /\ Len(stored) = 3
  /\ stored[1].src = <<6, 7, 8>>
  /\ sres.grew
  /\ sres.op = "store"
  /\ sarena.gen > 1
  /\ sarena.capacity > ArenaInitialCapacity

\* C19: arena_reset sets used to 0 and leaves the capacity and the buffer
\* (its address and its bytes) as they are; the first arena_store after a
\* reset returns index 0.
C19_ResetRewindsOnly ==
  [][/\ sresets' # sresets =>
          /\ sarena'.used = 0
          /\ sarena'.capacity = sarena.capacity
          /\ sarena'.gen = sarena.gen
          /\ sarena'.id = sarena.id
          /\ sarena'.bytes = sarena.bytes
     /\ (stored = <<>> /\ stored' # <<>>) => stored'[1].index = 0]_vars

\* C19 witness: a reset of an arena that had grown, and then a store
C19_Witness ==
  /\ sresets = 1
  /\ Len(stored) = 1
  /\ stored[1].index = 0
  /\ stored[1].src = <<6, 7, 8>>
  /\ sarena.used = 3
  /\ sarena.capacity > ArenaInitialCapacity

\* C16: after every refresh the index hash of the slot that was rebuilt has
\* a power-of-two capacity and holds at most capacity / 2 entries (the
\* capacity being twice the power of two at or above the row count that
\* was reported before the rows were read).
C16_HashHalfFull ==
  (rpc = "done" /\ table.slots[rpos].index.cap # 0) =>
    LET h == table.slots[rpos].index IN
    /\ NextPowerOfTwo(h.cap, 1) = h.cap
    /\ 2 * Cardinality(OccupiedIdx(h)) <= h.cap
    /\ 2 * h.used <= h.cap

\* C20: no two executions of the refresh of the table overlap: the initial
\* load runs before the loader thread exists, the loader runs one refresh
\* per wakeup it has read, ticks that arrive meanwhile wait in the pair, and
\* a stop requested during a refresh waits for the loader to return.
C20_RefreshesDoNotOverlap ==
  /\ kin <= 1
  /\ kin = (IF kmain = "loading" THEN 1 ELSE 0) + (IF kworker = "load" THEN 1 ELSE 0)
  /\ kmain \in {"initial_load", "loading"} => kworker = "none"
  /\ kmain = "destroyed" => kin = 0

\* C20 witness: a refresh is running on the loader thread while a later
\* tick and the quit message of a stop request wait in the pair
C20_Witness ==
  /\ kmain = "join"
  /\ kworker = "load"
  /\ kin = 1
  /\ kticks >= 2
  /\ kpair = <<THREAD_MESSAGE_WAKEUP, THREAD_MESSAGE_QUIT>>

\* C21: on every shutdown path the loader thread has returned and has been
\* joined before the tables are destroyed (or was never created, when main
\* falls through after a failed start), and no refresh is running once
\* server_destroy has been reached.
C21_JoinBeforeDestroy ==
  /\ kmain \in {"stop", "destroyed"} =>
       /\ kworker \in {"none", "exited"}
       /\ kin = 0
       /\ ~krunning
  /\ (kmain \in {"stop", "destroyed"} /\ kworker = "none") => kticks = 0

\* C21 witness: the tables were destroyed after a stop request that found
\* wakeups waiting in the pair; the loader took them and the quit message
C21_Witness ==
  /\ kmain = "destroyed"
  /\ kworker = "exited"
  /\ kticks >= 2
  /\ kpair = <<>>
  /\ kin = 0

(***************************************************************************)
(* Properties of the catalog and the refresh driver                        *)
(***************************************************************************)
LaterTicks == (ddrv.now + 1)..MaxClock

\* C22: a table whose refresh failed stays eligible: at the next cron tick,
\* whenever it comes, the eligibility probe of data_load_all_tables_from_db
\* returns 1 for it and the refresh is attempted again (the failed refresh
\* did not advance last_loaded).
C22_FailedRefreshRetriedNextTick ==
  \A u \in dhist.failed :
    ddrv.pc = "idle" =>
      /\ dtabs[u].stats.last_loaded = dhist.pre[u].stats.last_loaded
      /\ \A now \in LaterTicks :
           TableLoadFromDb(dtabs[u], now, 0, [rows |-> {}, failed |-> FALSE]).ret = 1

\* C23: a refresh of one table, failed or not, leaves every other table as
\* it was (current_slot, both slots, statistics) and leaves the slot of
\* the same table that was current when it began as it was.
C23_RefreshTouchesOneInactiveSlot ==
  [][(ddrv.pc = "load" /\ ddrv.t < Len(dtabs)) =>
       LET u == ddrv.t + 1 IN
       /\ \A v \in 1..Len(dtabs) : v # u => dtabs'[v] = dtabs[v]
       /\ dtabs'[u].slots[dtabs[u].current_slot] = dtabs[u].slots[dtabs[u].current_slot]
       /\ dtabs'[u].table_id = dtabs[u].table_id
       /\ dtabs'[u].period = dtabs[u].period
       /\ dtabs'[u].indexes = dtabs[u].indexes]_vars

\* C23 witness: the second table was rebuilt, with a failure, in a cycle in
\* which the first table was rebuilt too, both having been loaded before
C23_Witness ==
  /\ ddrv.pc = "idle"
  /\ dhist.built = {1, 2}
  /\ 2 \in dhist.failed
  /\ dhist.pre[1].stats.last_loaded > 0
  /\ dhist.pre[2].stats.last_loaded > 0
  /\ dtabs[1] # dhist.pre[1]
  /\ dtabs[2].slots[dhist.pre[2].current_slot] = dhist.pre[2].slots[dhist.pre[2].current_slot]

\* C24: in each cycle exactly the tables with now - last_loaded >= period
\* are rebuilt; the others keep snapshot, current_slot and last_loaded; the
\* eligibility probe answers 1 exactly for the eligible tables and changes
\* no table.
C24_ExactlyEligibleRebuilt ==
  LET Eligible(u) == ddrv.now - dhist.pre[u].stats.last_loaded >= dhist.pre[u].period
  IN /\ ddrv.pc = "probe" =>
          /\ dtabs = dhist.pre
          /\ dhist.due = { u \in 1..ddrv.t : Eligible(u) }
          /\ ddrv.tables = Cardinality(dhist.due)
     /\ ddrv.pc = "load" =>
          /\ dhist.due = { u \in 1..Len(dtabs) : Eligible(u) }
          /\ dhist.built = { u \in 1..ddrv.t : Eligible(u) }
          /\ \A u \in 1..Len(dtabs) : u \notin dhist.built => dtabs[u] = dhist.pre[u]
          /\ \A u \in dhist.built :
               /\ dtabs[u].stats.last_loaded = ddrv.now
               /\ dtabs[u].current_slot = 1 - dhist.pre[u].current_slot
     /\ (ddrv.pc = "idle" /\ ddrv.cycles > 0) =>
          /\ dhist.built = { u \in 1..Len(dtabs) : Eligible(u) }
          /\ \A u \in 1..Len(dtabs) : u \notin dhist.built => dtabs[u] = dhist.pre[u]

\* C24 witness: a cycle in which the first table was due and rebuilt and
\* the second, loaded one tick earlier with a period of two, was not
C24_Witness ==
  /\ ddrv.pc = "idle"
  /\ dhist.built = {1}
  /\ dhist.due = {1}
  /\ dhist.pre[2].stats.last_loaded = ddrv.now - 1
  /\ dtabs[2] = dhist.pre[2]
  /\ dtabs[1].stats.last_loaded = ddrv.now
  /\ dtabs[1].current_slot # dhist.pre[1].current_slot

\* C27: every DESCRIBE_SCHEMA, before, during or after any refresh, is
\* answered with the same document, the one data_build made from the
\* configured tables.
C27_SchemaAnswerIsConstant ==
  /\ \A doc \in dhist.described : doc = dhist.schema
  /\ dhist.schema = DataRefreshSchema(dtabs)
  /\ dhist.schema = DataRefreshSchema(DataBuild(dtabs[1].indexes))

\* C27 witness: a DESCRIBE_SCHEMA was answered and a load pass is under
\* way that has rebuilt the first table, for the second time at least
C27_Witness ==
  /\ dhist.described # {}
  /\ ddrv.pc = "load"
  /\ ddrv.t = 1
  /\ 1 \in dhist.built
  /\ dhist.pre[1].stats.last_loaded >= ClockStart
  /\ dtabs[1].stats.last_loaded > ClockStart

\* C29: a FETCH carrying the configured id of one of the table's indexes
\* is looked up in the hash of that index, wherever the index stands in the
\* table's index list: a row the current slot holds is found under its key
\* in that column.
C29_FetchByConfiguredIndexId ==
  dhist.fetch.status # "none" =>
    LET f == dhist.fetch
    IN /\ f.pos = f.i - 1
       /\ f.held => (f.status = "hit" /\ f.row = f.r)
       /\ ~f.held => f.status = "miss"


(***************************************************************************)
(* Properties of the shutdown by QUIT and of the two backends' writers.    *)
(***************************************************************************)
FarewellFrame == BE32(Len(ByeJson)) \o ByeJson

LoopStopped == lev.loop = "stopped" \/ uctx.pc = "stopped"

\* C25: in both backends, once the event loop has stopped, the farewell
\* frame of every QUIT that was handled has been written to the socket: the
\* four length bytes of 12 and then {"BYE":true}.  (For the libevent
\* backend this is asked only when the socket's send buffer had room at the
\* moment the loop stopped.)
C25_FarewellWrittenBeforeLoopStops ==
  LoopStopped =>
    /\ \A i \in 1..Len(handled) :
         handled[i].status = "quit" /\ ~lev.full => WireOf(i) = FarewellFrame
    /\ \A i \in 1..Len(uctx.done) :
         uctx.done[i].status = "quit" => WireOf(i) = FarewellFrame

\* C26: from the moment a QUIT has been handled the server accepts no new
\* connection.
C26_NoAcceptAfterQuit == lev.late = 0


\* the bytes of tagged bytes
Untag(w) == [i \in 1..Len(w) |-> w[i].b]

\* the response the protocol defines for a request answered with status:
\* the frame of the row, four zero bytes, or length and document
ResponseOf(status, frame) ==
  IF status = "hit" THEN frame
  ELSE IF status = "schema" THEN BE32(Len(SchemaJson)) \o SchemaJson
  ELSE IF status = "stats" THEN BE32(Len(StatusJson)) \o StatusJson
  ELSE IF status = "quit" THEN FarewellFrame
  ELSE zero_hdr

\* libevent backend: what is queued on the connection, the rest of wbuf and
\* then the rest of what pending_ref points to
LevQueued ==
  Untag(SubSeq(conn.wbuf, conn.wbuf_pos + 1, conn.wbuf_len))
  \o (IF conn.pending_ref # NULL /\ conn.pending_ref_pos < conn.pending_ref_len
      THEN MemRead(table, PtrAdd(conn.pending_ref, conn.pending_ref_pos),
                   conn.pending_ref_len - conn.pending_ref_pos).bytes
      ELSE <<>>)

\* io_uring backend: the same, and the bytes of it that the kernel has sent
\* in completions the loop has not handled yet
UringQueued ==
  Untag(SubSeq(uctx.c.wbuf, uctx.c.wbuf_pos + 1, Len(uctx.c.wbuf)))
  \o Untag(SubSeq(uctx.c.pending_ref, uctx.c.pending_ref_pos + 1,
                  Len(uctx.c.pending_ref)))

RECURSIVE SentUnhandled(_)
SentUnhandled(cq) ==
  IF cq = <<>> THEN 0
  ELSE (IF Head(cq).op = "send" THEN Head(cq).res ELSE 0) + SentUnhandled(Tail(cq))

\* C30: a response that is queued while nothing else is pending, and that
\* no later response joins before it is flushed, reaches the socket as its
\* header followed by its payload, every byte once and in order, whatever
\* the socket takes per write: at every moment the bytes written so far
\* followed by the rest of wbuf and the rest of the referenced payload are
\* the response, and once a later request found nothing pending all of it
\* has been written.  In both backends.
C30_SingleResponseInOrder ==
  /\ \A i \in 1..Len(handled) :
       /\ conn.fd >= 0 /\ i = Len(handled) /\ ~handled[i].hpend
          => WireOf(i) \o LevQueued
               = ResponseOf(handled[i].status, handled[i].frame)
       /\ i < Len(handled) /\ ~handled[i].hpend /\ ~handled[i + 1].hpend
          => WireOf(i) = ResponseOf(handled[i].status, handled[i].frame)
  /\ \A i \in 1..Len(uctx.done) :
       /\ i = Len(uctx.done) /\ ~uctx.done[i].pend
          => WireOf(i) \o Drop(UringQueued, SentUnhandled(uctx.cq))
               = ResponseOf(uctx.done[i].status, <<>>)
       /\ i < Len(uctx.done) /\ ~uctx.done[i].pend /\ ~uctx.done[i + 1].pend
          => WireOf(i) = ResponseOf(uctx.done[i].status, <<>>)

\* a farewell queued alone with the socket nearly full: a later write event
\* has flushed part of the header's remainder in wbuf, the payload is still
\* referenced
C30_Witness ==
  /\ io_backend = "libevent"
  /\ Len(handled) = 2
  /\ handled[2].status = "quit"
  /\ ~handled[2].hpend
  /\ conn.wbuf_pos > 0
  /\ conn.wbuf_pos < conn.wbuf_len
  /\ conn.pending_ref # NULL
  /\ conn.pending_ref_len = Len(ByeJson)


(***************************************************************************)
(* Properties of the row payload.                                          *)
(***************************************************************************)
\* C28: decoding with client_decode_row the payload the encoder produced
\* for a row of at most MAX_FIELDS fields succeeds and yields the row: the
\* same field count and, field by field in order, the same name, type tag,
\* value length and value, a null field where the row has one.  The payload
\* has the size the encoder computed for it.
C28_DecodeInvertsEncode ==
  /\ rowst.pc \in {"encoded", "decoded"} => Len(rowst.payload) = RowSize(rowst.row)
  /\ rowst.pc = "decoded" =>
       /\ rowst.decoded.ok
       /\ rowst.decoded.field_count = Len(rowst.row)
       /\ Len(rowst.decoded.fields) = Len(rowst.row)
       /\ \A i \in 1..Len(rowst.row) :
            /\ rowst.decoded.fields[i].name = rowst.row[i].name
            /\ rowst.decoded.fields[i].type = rowst.row[i].type
            /\ rowst.decoded.fields[i].len = rowst.row[i].len
            /\ rowst.decoded.fields[i].value = rowst.row[i].value

\* a PostgreSQL row of MAX_FIELDS fields, a null first and a negative
\* int64 last, has been decoded
C28_Witness ==
  /\ rowst.pc = "decoded"
  /\ rowst.driver = "postgresql"
  /\ Len(rowst.row) = MAX_FIELDS
  /\ rowst.row[1].type = MELIAN_VALUE_NULL
  /\ rowst.row[MAX_FIELDS].type = MELIAN_VALUE_INT64
  /\ rowst.row[MAX_FIELDS].value[1] < 0
  /\ rowst.decoded.ok

(***************************************************************************)
(* Properties of the write queue of a connection.                          *)
(***************************************************************************)
\* some response to a request handled so far is not completely on the wire
UnsentResponse ==
  \E i \in 1..Len(handled) :
    /\ ~handled[i].rejected
    /\ handled[i].status # "hit"
    /\ WireOf(i) # ResponseOf(handled[i].status, handled[i].frame)

\* C31: an open connection is registered for write readiness exactly while
\* it has unsent response bytes: whenever some response handled on it is
\* not completely written the write event is added, and once the write
\* event is deleted every response has been sent completely.
C31_WriteInterestWhileUnsent ==
  io_backend = "libevent" /\ conn.fd >= 0 /\ crashed = "no"
    => (conn.wev <=> UnsentResponse)

\* the registration follows the connection's own write queue
WriteInterestIsQueue ==
  io_backend = "libevent" /\ conn.fd >= 0 /\ crashed = "no"
    => (conn.wev <=> OutputPending(conn))

(***************************************************************************)
(* Properties of the growth policy.                                        *)
(***************************************************************************)
\* the smallest start * 2^k that is at least value
SmallestDoubling(value, start) ==
  LET cands == { start * (2 ^ k) : k \in 0..UnsignedBits }
  IN CHOOSE p \in cands : p >= value /\ \A q \in cands : q >= value => p <= q

\* C32: next_power_of_two(value, start) terminates and returns the smallest
\* start * 2^k that is at least value, for every unsigned value and every
\* start >= 1.
C32_NextPowerOfTwoSmallest ==
  <>(/\ npot.pc = "returned"
     /\ npot.power = SmallestDoubling(npot.value, npot.start))

\* within the range where no doubling overflows the call does return that
NextPowerOfTwoInRange ==
  SmallestDoubling(npot.value, npot.start) < UnsignedMod
    => /\ npot.pc = "returned"
          => npot.power = SmallestDoubling(npot.value, npot.start)
       /\ npot.power <= SmallestDoubling(npot.value, npot.start)
       /\ npot.power > 0

\* the arena of the library model, whose sizes stay far below the unsigned
\* range: used <= capacity, and the capacity is the initial one doubled
ArenaGrowthInRange ==
  /\ sarena.used <= sarena.capacity
  /\ sarena.capacity = SmallestDoubling(sarena.capacity, ArenaInitialCapacity)

(***************************************************************************)
(* Properties of the connection structs of the io_uring backend.           *)
(***************************************************************************)
\* following next from ctx->conn_free ends at NULL without meeting a struct
\* twice
RECURSIVE FreeListEnds(_, _, _)
FreeListEnds(from, seen, n) ==
  IF from = 0 THEN TRUE
  ELSE IF n = 0 \/ from \in seen THEN FALSE
  ELSE FreeListEnds(upool.cs[from].next, seen \cup {from}, n - 1)

\* C35: in the io_uring backend a struct is on the free list at most once,
\* no struct on the free list and no struct reused for another socket has
\* a recv or send outstanding that was submitted for it, and no completion
\* is handled for a struct that has been recycled since.
C35_NoRecycleWhileOutstanding ==
  /\ FreeListEnds(upool.conn_free, {}, UringStructs)
  /\ ~upool.twice
  /\ \A i \in 1..Len(upool.fly) :
       /\ ~OnFreeList(upool, upool.fly[i].c)
       /\ upool.cs[upool.fly[i].c].fd = upool.fly[i].fd
  /\ ~upool.stale

\* C33: no byte of the previous connection's request is parsed on the new
\* socket of a struct taken from the free list: a struct serving a socket
\* never parses a request that was read from another socket.
C33_NoBytesOfPreviousConnection == ~upool.foreign

(***************************************************************************)
(* Properties of MelLoop.                                                  *)
(***************************************************************************)
\* C34: a call to mel_loop_stop, made before mel_loop_run starts, while it
\* waits or while it dispatches callbacks, makes mel_loop_run return.
C34_StopMakesRunReturn ==
  (mloop.stops > 0) ~> (mloop.pc = "returned")

\* a call made after mel_loop_run has set running does make it return
StopAfterStartReturns ==
  (mloop.stops > 0 /\ ~mloop.early) ~> (mloop.pc = "returned" \/ mloop.early)

(***************************************************************************)
(* Properties of EventConn.                                                *)
(***************************************************************************)
\* C36: an EventConn is freed only when it is closing and no read or write
\* submitted for it is outstanding: it is freed at most once, never with an
\* operation in flight, and never used after it was freed.
C36_FreeOnlyWhenNothingInFlight ==
  \A c \in 1..EventConns :
    /\ ~econn[c].frees_inflight
    /\ econn[c].frees <= 1
    /\ ~econn[c].uaf
    /\ econn[c].mem = "freed" => econn[c].closing

(***************************************************************************)
(* Properties of GET_STATISTICS.                                           *)
(***************************************************************************)
\* what connection c's request builds and is answered with: the length
\* header and the document status_json built for it
StatResponse(c) == BE32(Len(stats.doc[c])) \o stats.doc[c]

\* C37: a GET_STATISTICS response written partly keeps referring to the
\* document it was built from: whatever is handled for another connection
\* meanwhile, the bytes sent on a connection are the start of its length
\* header followed by the document built for its request.
C37_PartlyWrittenStatisticsUnchanged ==
  \A c \in 1..StatConns :
    stats.asked[c] => IsPrefix(Untag(stats.wire[c]), StatResponse(c))

\* as many payload bytes are sent as the length header announces
StatPayloadLengthIsHeader ==
  \A c \in 1..StatConns :
    (stats.asked[c] /\ ~OutputPending(stats.cs[c]))
      => Len(stats.wire[c]) = 4 + NtoHL(Take(Untag(stats.wire[c]), 4))

\* a response to be continued while another connection's request is handled
StatPartlyWritten ==
  \E c, d \in 1..StatConns :
    /\ c # d
    /\ stats.asked[c] /\ stats.asked[d]
    /\ OutputPending(stats.cs[c])
    /\ stats.doc[c] # stats.doc[d]

(***************************************************************************)
(* Properties of a refresh that reads more rows than were counted.         *)
(***************************************************************************)
\* C38: every refresh terminates: hash_insert finds an empty bucket for
\* every row the SELECT yields, also when it yields more rows than the
\* COUNT reported or the COUNT failed and reported 0; the loop of
\* hash_insert is never entered with every bucket occupied.
C38_InsertFindsEmptyBucket == rpc # "hung"

\* a row is read into a hash that is half full or more
MoreRowsThanCounted ==
  /\ rpc = "rows"
  /\ table.slots[rpos].index.cap > 0
  /\ 2 * table.slots[rpos].index.used >= table.slots[rpos].index.cap

(***************************************************************************)
(* Properties of a key inserted more than once.                            *)
(***************************************************************************)
InsertionsOf(key) == { i \in 1..Len(inserted) : inserted[i].key = key }

\* the buckets of the finalized hash that hold key
BucketsOf(key) ==
  { i \in OccupiedIdx(shash) :
      /\ shash.tab[i].hash = KeyHash(key)
      /\ shash.tab[i].key_len = Len(key)
      /\ PtrInArena(shash.tab[i].key_ptr, sarena, Len(key))
      /\ ArenaBytes(sarena, shash.tab[i].key_ptr.off, Len(key)) = key }

\* the keys of one or more bytes, as the loaders insert them, that were
\* inserted more than once
KeysInsertedAgain ==
  { key \in InsertedKeys : key # <<>> /\ Cardinality(InsertionsOf(key)) > 1 }

\* the arena index at which the first hash_insert of key stored its copy of
\* the key; every insertion stores a copy of its own
FirstKeyIndex(key) ==
  stored[CHOOSE i \in 1..Len(stored) :
           /\ stored[i].kind = "key" /\ stored[i].src = key
           /\ \A j \in 1..(i - 1) : ~(stored[j].kind = "key" /\ stored[j].src = key)].index

QuitPoked ==
  /\ Len(kpair') > Len(kpair)
  /\ kpair'[Len(kpair')] = THREAD_MESSAGE_QUIT

\* C40: cron_stop always returns.  The loader reads the messages in the
\* order they were written and exits exactly at the quit message, so once
\* cron_stop waits in pthread_join the join completes (every refresh the
\* loader starts ends); a quit message is written and a join begun only by
\* the call that finds cron running and clears running, so a later call
\* does neither.
C40_CronStopReturns ==
  /\ (kmain = "join") ~> (kmain = "stop")
  /\ [][(kworker = "read" /\ kworker' # "read") =>
          /\ kpair' = Tail(kpair)
          /\ (kworker' = "exited") = (Head(kpair) = THREAD_MESSAGE_QUIT)]_vars
  /\ [][(QuitPoked \/ (kmain # "join" /\ kmain' = "join")) =>
          (krunning /\ ~krunning')]_vars

\* C40 witness: cron_stop has returned after the loader read wake-ups that
\* were queued while it was loading, and the later call has been made
C40_Witness ==
  /\ kmain = "destroyed"
  /\ kworker = "exited"
  /\ kticks > 1
  /\ kpair = <<>>
  /\ ~krunning

====
